---- MODULE Spec2Model ----
(***************************************************************************)
(* Alif SE-UART ISP client (alif-flash/src/alif_flash/isp.py): the packet  *)
(* codec, the command exchange, and the operations probe,                  *)
(* enter_maintenance, write_image and flash_images as one state machine    *)
(* that runs against a nondeterministic device and serial link.            *)
(*                                                                         *)
(* Addresses are stored as offsets from 0x80000000 (the MRAM window),      *)
(* because TLC integers are 32-bit signed.                                 *)
(***************************************************************************)
EXTENDS Integers, Sequences, FiniteSets, TLC

\* ------------------------------------------------------------------------
\* Protocol constants
\* ------------------------------------------------------------------------
DATA_PER_CHUNK == 240
CMD_START_ISP == 0
CMD_STOP_ISP == 1
CMD_DOWNLOAD_DATA == 4
CMD_DOWNLOAD_DONE == 5
CMD_BURN_MRAM == 8
CMD_RESET_DEVICE == 9
CMD_ENQUIRY == 15
CMD_SET_MAINTENANCE == 22
CMD_ACK == 254
CMD_DATA_RESP == 253
MAX_SEGMENT_SIZE == 262144
\* 0x80580000, as an offset from 0x80000000
SYSTEM_MRAM_BASE == 5767168

\* The value Python's None takes for a command id that was not decoded.
NONE == -1

\* ------------------------------------------------------------------------
\* Bounds of the model
\* ------------------------------------------------------------------------
\* How many of the latest port events the wire window keeps.
WireWindow == 6
\* File sizes (bytes) of the images the operations are run on.
SmallSize == 250
TinySize == 16
\* A two-segment image: one full 256 KiB segment and a short second one.
BigSize == 262394

\* ------------------------------------------------------------------------
\* Packet codec
\* ------------------------------------------------------------------------
\* sum(data), added up by halves.
RECURSIVE SumRange(_, _, _)
SumRange(s, lo, hi) ==
    IF lo > hi THEN 0
    ELSE IF lo = hi THEN s[lo]
    ELSE SumRange(s, lo, (lo + hi) \div 2)
            + SumRange(s, (lo + hi) \div 2 + 1, hi)
SumBytes(s) == SumRange(s, 1, Len(s))

\* Mutant: the one's complement of the sum.
calc_checksum_ones(data) == 255 - (SumBytes(data) % 256)
\* Mutant: the sum itself in place of its negation.
calc_checksum_plain(data) == SumBytes(data) % 256
calc_checksum(data) == (0 - SumBytes(data)) % 256

\* Mutant: the length byte does not count itself.
make_packet_short_length(cmd, data) ==
    LET payload == <<cmd>> \o data
        length == Len(payload) + 1
        pkt == <<length>> \o payload
    IN  Append(pkt, calc_checksum(pkt))

make_packet(cmd, data) ==
    LET payload == <<cmd>> \o data
        length == Len(payload) + 2
        pkt == <<length>> \o payload
    IN  Append(pkt, calc_checksum(pkt))

\* ser.read(n): at most n of the bytes that arrive before the timeout.
Take(s, n) == SubSeq(s, 1, IF n < Len(s) THEN n ELSE Len(s))
Drop(s, n) == SubSeq(s, n + 1, Len(s))

NoResponse == [cmd |-> NONE, data |-> <<>>]

\* Mutant: a payload of one byte is taken for no payload.
read_response_long_only(rx) ==
    IF rx.err THEN NoResponse
    ELSE LET first == Take(rx.bytes, 1) IN
         IF first = <<>> THEN NoResponse
         ELSE LET length == first[1] IN
              IF length < 2 THEN NoResponse
              ELSE LET rest == Take(Drop(rx.bytes, 1), length - 1) IN
                   IF Len(rest) < 1 THEN NoResponse
                   ELSE [cmd |-> rest[1],
                         data |-> IF Len(rest) > 3
                                  THEN SubSeq(rest, 2, Len(rest) - 1)
                                  ELSE <<>>]

\* Mutant: a frame whose bytes do not sum to 0 modulo 256 is dropped.
read_response_checked(rx) ==
    IF rx.err THEN NoResponse
    ELSE LET first == Take(rx.bytes, 1) IN
         IF first = <<>> THEN NoResponse
         ELSE LET length == first[1] IN
              IF length < 2 THEN NoResponse
              ELSE LET rest == Take(Drop(rx.bytes, 1), length - 1) IN
                   IF Len(rest) < 1 THEN NoResponse
                   ELSE IF (length + SumBytes(rest)) % 256 # 0 THEN NoResponse
                   ELSE [cmd |-> rest[1],
                         data |-> IF Len(rest) > 2
                                  THEN SubSeq(rest, 2, Len(rest) - 1)
                                  ELSE <<>>]

\* rx is what the link delivers to one read_response call: the bytes that
\* arrive before the timeout, or an I/O error (err) raised by ser.read.
read_response(rx) ==
    IF rx.err THEN NoResponse
    ELSE LET first == Take(rx.bytes, 1) IN
         IF first = <<>> THEN NoResponse
         ELSE LET length == first[1] IN
              IF length < 2 THEN NoResponse
              ELSE LET rest == Take(Drop(rx.bytes, 1), length - 1) IN
                   IF Len(rest) < 1 THEN NoResponse
                   ELSE [cmd |-> rest[1],
                         data |-> IF Len(rest) > 2
                                  THEN SubSeq(rest, 2, Len(rest) - 1)
                                  ELSE <<>>]

\* send_cmd line 91 / _write_segment line 368: the accepted response codes.
IsAck(resp_cmd) == resp_cmd \in {CMD_ACK, CMD_DATA_RESP}

\* ------------------------------------------------------------------------
\* The device and the link (environment)
\* ------------------------------------------------------------------------
EnquiryMaint == [i \in 1..10 |-> IF i = 10 THEN 1 ELSE 0]
EnquiryNoMaint == [i \in 1..10 |-> 0]
EnquiryShort == <<1, 2, 3, 4>>
\* Response codes that are neither ACK nor DATA_RESP.
OtherCodes == {0, 255}

ResponseBytes ==
    {<<>>, <<1>>, <<3>>,
     make_packet(CMD_ACK, <<>>),
     make_packet(CMD_DATA_RESP, EnquiryMaint),
     make_packet(CMD_DATA_RESP, EnquiryNoMaint),
     make_packet(CMD_DATA_RESP, EnquiryShort)}
    \cup {make_packet(c, <<>>) : c \in OtherCodes}
    \cup {make_packet(c, EnquiryMaint) : c \in OtherCodes}

Responses ==
    {[err |-> FALSE, bytes |-> b] : b \in ResponseBytes}
    \cup {[err |-> TRUE, bytes |-> <<>>]}

\* What an observer of the line saw of one response: a frame with an accepted
\* code, a frame with another code, no byte at all, or bytes that did not
\* decode to a command.
RxClass(rx) ==
    LET r == read_response(rx) IN
    IF IsAck(r.cmd) THEN "ok"
    ELSE IF r.cmd # NONE THEN "nak"
    ELSE IF rx.bytes = <<>> THEN "none"
    ELSE "junk"

\* ------------------------------------------------------------------------
\* State
\* ------------------------------------------------------------------------
VARIABLES
    inp,        \* the call: operation, flags, firmware table / image file
    pc,         \* position of the thread of control
    attempt,    \* loop variable of open_serial / start_isp
    ser,        \* the port handle bound to `ser`: "none", "open" or "closed"
    maint,      \* enter_maintenance: (ok, data) of the ENQUIRY exchange
    wi,         \* locals of write_image
    ws,         \* locals of _write_segment
    pending,    \* write_image: what leaves the try block once `finally` ran
    fl,         \* locals of flash_images: images, loop index, results
    em_ret,     \* what enter_maintenance returned (or raised)
    wi_ret,     \* what write_image returned (or raised)
    result,     \* what the operation returned (or raised)
    wire,       \* the latest WireWindow events on the port
    calls,      \* the files write_image was called with, in order
    tmo,        \* read_response: the port's timeout and the saved one
    sess,       \* uart-mcp: one SerialSession and the port object it holds
    link,       \* alif-flash server: two tool calls at work on one port
    steps,      \* enter_maintenance: the steps noted before the port is opened
    comp        \* the locals of the function or object that is run on its own

\* The state of the components checked on their own, and what only
\* enter_maintenance's entry writes.
aux == <<tmo, sess, link, steps, comp>>

vars == <<inp, pc, attempt, ser, maint, wi, ws, pending, fl,
          em_ret, wi_ret, result, wire, calls, aux>>

\* A returned dict (kind "returned") or a propagated exception ("raised").
Res(kind, success, msg, file) ==
    [kind |-> kind, success |-> success, msg |-> msg, file |-> file,
     maint |-> FALSE, chunks |-> 0, segments |-> 0,
     original_bytes |-> 0, padded_bytes |-> 0]
NoRes == Res("none", FALSE, "", "")
Raised == Res("raised", FALSE, "SerialException", "")
Fail(msg, file) == Res("returned", FALSE, msg, file)

\* Port events. seg is the number of the segment write_image is at (seg_num)
\* when the event happens, NONE outside write_image.
Ev(ev, cmd, a, b, seg, r) ==
    [ev |-> ev, cmd |-> cmd, a |-> a, b |-> b, seg |-> seg, r |-> r]
EvOpen(seg) == Ev("open", NONE, 0, 0, seg, "-")
EvClose(seg) == Ev("close", NONE, 0, 0, seg, "-")
\* A frame written and the class of the response read for it. The class is
\* kept in full for the data path (BURN_MRAM, DOWNLOAD_DATA) and as
\* "ok" / "fail" for the other commands.
EvFrame(cmd, a, b, seg, rx) ==
    Ev("frame", cmd, a, b, seg,
       IF cmd \in {CMD_BURN_MRAM, CMD_DOWNLOAD_DATA} THEN RxClass(rx)
       ELSE IF RxClass(rx) = "ok" THEN "ok" ELSE "fail")
\* A frame written without reading a response (RESET_DEVICE).
EvSent(cmd) == Ev("frame", cmd, 0, 0, NONE, "-")

Push(w, e) ==
    IF Len(w) < WireWindow THEN Append(w, e) ELSE Append(Tail(w), e)

Min(a, b) == IF a < b THEN a ELSE b

\* ------------------------------------------------------------------------
\* Inputs
\* ------------------------------------------------------------------------
\* One entry of the firmware table (binary, mramAddress, disabled) and
\* whether images/<binary> exists on disk, with its size.
Entry(binary, size, exists, disabled) ==
    [binary |-> binary, size |-> size, exists |-> exists, disabled |-> disabled,
     addr |-> IF binary = "a.bin" THEN 4096 ELSE 2097152]
NoFile == [name |-> "", size |-> 0, addr |-> 0]

\* Firmware tables: AppTocPackage.bin present or not, and the config entries.
Tables ==
    {[atoc |-> TRUE,
      entries |-> <<Entry("a.bin", SmallSize, TRUE, FALSE),
                    Entry("b.bin", TinySize, TRUE, FALSE)>>],
     [atoc |-> TRUE,
      entries |-> <<Entry("a.bin", TinySize, TRUE, FALSE),
                    Entry("b.bin", TinySize, FALSE, FALSE)>>],
     [atoc |-> FALSE,
      entries |-> <<Entry("a.bin", TinySize, TRUE, TRUE),
                    Entry("b.bin", SmallSize, TRUE, FALSE)>>],
     [atoc |-> FALSE, entries |-> <<>>]}
NoTable == [atoc |-> FALSE, entries |-> <<>>]

Call(op, em, wr, jl, table, file) ==
    [op |-> op, enter_maint |-> em, do_wait_for_replug |-> wr,
     jlink_reset |-> jl, table |-> table, file |-> file]

Inputs ==
    {Call("probe", FALSE, FALSE, FALSE, NoTable, NoFile)}
    \cup {Call("enter_maintenance", FALSE, wr, jl, NoTable, NoFile) :
            wr \in BOOLEAN, jl \in BOOLEAN}
    \cup {Call("write_image", FALSE, FALSE, FALSE, NoTable,
               [name |-> "img.bin", size |-> n, addr |-> 3145728]) :
            n \in {SmallSize, BigSize}}
    \cup {Call("flash_images", em, wr, jl, t, NoFile) :
            em \in BOOLEAN, wr \in BOOLEAN, jl \in BOOLEAN, t \in Tables}

EntryPc(op) ==
    CASE op = "probe" -> "pr_open"
      [] op = "enter_maintenance" -> "em_entry"
      [] op = "write_image" -> "wi_entry"
      [] op = "flash_images" -> "fl_entry"

NoWi == [name |-> "", addr |-> 0, orig |-> 0, size |-> 0,
         seg_offset |-> 0, seg_num |-> 0, total_chunks |-> 0]
NoWs == [size |-> 0, addr |-> 0, offset |-> 0, chunk_num |-> 0]
NoEnquiry == [ok |-> FALSE, data |-> <<>>]

\* Line 189: the timeout a port is opened with. Line 52: the default
\* timeout of read_response. Line 367: the timeout of a chunk's response.
PORT_TIMEOUT == 2
DEFAULT_TIMEOUT == 2
CHUNK_TIMEOUT == 1
\* ser.timeout, the local old_timeout of read_response, and whether an
\* assignment to ser.timeout raised.
NoTimeout == [ser |-> PORT_TIMEOUT, old_timeout |-> NONE, fault |-> FALSE]
\* uart-mcp serial_session.py, a SerialSession after construction: _ser is
\* None. port_open is the is_open of the Serial object _ser refers to, last
\* is the latest method call: whether the session was open before it, how
\* it ended, how many Serial objects it constructed and how many calls it
\* made on a port.
NoCall == [op |-> "none", was_open |-> FALSE, outcome |-> "none",
           constructed |-> 0, touched |-> 0]
NewSession == [ser |-> "None", port_open |-> FALSE, opened |-> 0,
               calls |-> 0, last |-> NoCall]
\* server.py line 292 and 321: the tools of the two calls.
Workers == {"probe", "flash"}
NoWorker == [pc |-> "idle", attempt |-> 0, sent |-> 0, got |-> "-"]
NoLink == [thr |-> [t \in Workers |-> NoWorker],
           dev |-> <<>>, rx |-> <<>>, port |-> <<>>]
NoComp == [of |-> "none"]
AuxIdle == tmo = NoTimeout /\ sess = NewSession /\ link = NoLink /\ steps = <<>>
           /\ comp = NoComp

Init ==
    /\ inp \in Inputs
    /\ pc = EntryPc(inp.op)
    /\ attempt = 0
    /\ ser = "none"
    /\ maint = NoEnquiry
    /\ wi = IF inp.op = "write_image"
            THEN [NoWi EXCEPT !.name = inp.file.name, !.addr = inp.file.addr,
                              !.orig = inp.file.size]
            ELSE NoWi
    /\ ws = NoWs
    /\ pending = NoRes
    /\ fl = [images |-> <<>>, idx |-> 0, results |-> <<>>]
    /\ em_ret = NoRes
    /\ wi_ret = NoRes
    /\ result = NoRes
    /\ wire = <<>>
    /\ calls = <<>>
    /\ AuxIdle

\* ------------------------------------------------------------------------
\* Retry counts (default arguments and call sites)
\* ------------------------------------------------------------------------
START_ISP_RETRIES == 3
OPEN_RETRIES == 3
REOPEN_RETRIES == 5

\* ------------------------------------------------------------------------
\* Building blocks: function exits, close, open_serial, start_isp, send_cmd
\* ------------------------------------------------------------------------
\* The operation itself ends with res.
EndTop(res) ==
    /\ result' = res
    /\ pc' = "done"
    /\ UNCHANGED <<em_ret, wi_ret>>

\* enter_maintenance ends with res: the operation's result, or control goes
\* back to flash_images.
EndEm(res) ==
    /\ em_ret' = res
    /\ IF inp.op = "enter_maintenance"
       THEN pc' = "done" /\ result' = res
       ELSE pc' = "fl_after_maint" /\ result' = result
    /\ UNCHANGED wi_ret

\* write_image ends with res.
EndWi(res) ==
    /\ wi_ret' = res
    /\ IF inp.op = "write_image"
       THEN pc' = "done" /\ result' = res
       ELSE pc' = "fl_after_write" /\ result' = result
    /\ UNCHANGED em_ret

\* ser.close(): closing a closed port does nothing.
CloseSer(seg) ==
    /\ ser' = IF ser = "open" THEN "closed" ELSE ser
    /\ wire' = IF ser = "open" THEN Push(wire, EvClose(seg)) ELSE wire

\* Mutant: one attempt more than `retries`.
MoreAttemptsOneMore(n, retries) == n < retries
\* Line 199: `attempt < retries - 1`, another attempt follows a failed one.
MoreAttempts(n, retries) == n < retries - 1

\* One pass of open_serial's loop. The port opens and drains ("ok"), does
\* not open ("fail"), or opens but fails while drained and is closed again
\* ("not_ready"); the last two are failed attempts. The wire window records
\* the open of a handle that is returned to the caller.
OpenSerialPass(retries, seg, okPc, raisePc) ==
    /\ UNCHANGED <<aux, inp, maint, wi, ws, fl, em_ret, wi_ret, result, calls>>
    /\ \E o \in {"ok", "fail", "not_ready"} :
         IF o = "ok"
         THEN /\ pc' = okPc
              /\ attempt' = 0
              /\ ser' = "open"
              /\ wire' = Push(wire, EvOpen(seg))
              /\ UNCHANGED pending
         ELSE /\ UNCHANGED <<ser, wire>>
              /\ IF MoreAttempts(attempt, retries)
                 THEN pc' = pc /\ attempt' = attempt + 1 /\ UNCHANGED pending
                 ELSE pc' = raisePc /\ attempt' = 0 /\ pending' = Raised

\* Mutant: start_isp goes on to a fourth attempt.
StartIspPassFour(seg, okPc, failPc, failRes, raisePc) ==
    /\ UNCHANGED <<aux, inp, ser, maint, wi, ws, fl, em_ret, wi_ret, result, calls>>
    /\ \/ /\ pc' = raisePc
          /\ attempt' = 0
          /\ pending' = Raised
          /\ UNCHANGED wire
       \/ \E rx \in Responses :
            /\ wire' = Push(wire, EvFrame(CMD_START_ISP, 0, 0, seg, rx))
            /\ IF IsAck(read_response(rx).cmd)
               THEN pc' = okPc /\ attempt' = 0 /\ UNCHANGED pending
               ELSE IF attempt < START_ISP_RETRIES
                    THEN pc' = pc /\ attempt' = attempt + 1 /\ UNCHANGED pending
                    ELSE pc' = failPc /\ attempt' = 0 /\ pending' = failRes

\* One pass of start_isp's loop: drain (errors swallowed), one send_cmd.
\* A write that fails raises out of start_isp.
StartIspPass(seg, okPc, failPc, failRes, raisePc) ==
    /\ UNCHANGED <<aux, inp, ser, maint, wi, ws, fl, em_ret, wi_ret, result, calls>>
    /\ \/ /\ pc' = raisePc
          /\ attempt' = 0
          /\ pending' = Raised
          /\ UNCHANGED wire
       \/ \E rx \in Responses :
            /\ wire' = Push(wire, EvFrame(CMD_START_ISP, 0, 0, seg, rx))
            /\ IF IsAck(read_response(rx).cmd)
               THEN pc' = okPc /\ attempt' = 0 /\ UNCHANGED pending
               ELSE IF attempt < START_ISP_RETRIES - 1
                    THEN pc' = pc /\ attempt' = attempt + 1 /\ UNCHANGED pending
                    ELSE pc' = failPc /\ attempt' = 0 /\ pending' = failRes

\* send_cmd: flush input, write one frame, one read_response.
SendCmd(cmd, a, b, seg, okPc, okRes, failPc, failRes, raisePc) ==
    /\ UNCHANGED <<aux, inp, attempt, ser, maint, wi, ws, fl,
                   em_ret, wi_ret, result, calls>>
    /\ \/ /\ pc' = raisePc
          /\ pending' = Raised
          /\ UNCHANGED wire
       \/ \E rx \in Responses :
            /\ wire' = Push(wire, EvFrame(cmd, a, b, seg, rx))
            /\ IF IsAck(read_response(rx).cmd)
               THEN pc' = okPc /\ pending' = okRes
               ELSE pc' = failPc /\ pending' = failRes

\* ------------------------------------------------------------------------
\* probe
\* ------------------------------------------------------------------------
ProbeOk == Res("returned", TRUE, "", "")

pr_open ==
    /\ pc = "pr_open"
    /\ OpenSerialPass(OPEN_RETRIES, NONE, "pr_isp", "pr_return")

pr_isp ==
    /\ pc = "pr_isp"
    /\ StartIspPass(NONE, "pr_enquiry", "pr_finally",
                    Fail("SE did not respond to START_ISP", ""), "pr_finally")

pr_enquiry ==
    /\ pc = "pr_enquiry"
    /\ SendCmd(CMD_ENQUIRY, 0, 0, NONE,
               "pr_stop", pending, "pr_stop", pending, "pr_finally")

pr_stop ==
    /\ pc = "pr_stop"
    /\ SendCmd(CMD_STOP_ISP, 0, 0, NONE,
               "pr_finally", ProbeOk, "pr_finally", ProbeOk, "pr_finally")

\* finally: ser.close()
pr_finally ==
    /\ pc = "pr_finally"
    /\ CloseSer(NONE)
    /\ EndTop(pending)
    /\ UNCHANGED <<aux, inp, attempt, maint, wi, ws, pending, fl, calls>>

\* open_serial raised before the try block
pr_return ==
    /\ pc = "pr_return"
    /\ EndTop(pending)
    /\ UNCHANGED <<aux, inp, attempt, ser, maint, wi, ws, pending, fl, wire, calls>>

\* ------------------------------------------------------------------------
\* enter_maintenance
\* ------------------------------------------------------------------------
\* Mutant: the flag is read one byte early.
MaintConfirmedByte8(ok, data) == ok /\ Len(data) >= 10 /\ data[9] # 0
\* Line 324: the maintenance flag is byte 9 of an ENQUIRY response that was
\* acknowledged and is at least 10 bytes long.
MaintConfirmed(ok, data) == ok /\ Len(data) >= 10 /\ data[10] # 0

EmOk(m) ==
    [Res("returned", TRUE,
         IF m THEN "" ELSE "Maintenance flag not confirmed", "")
     EXCEPT !.maint = m]

\* Lines 263 and 271: what is noted when a strategy begins.
STEP_JLINK == "resetting board via JLink..."
STEP_REPLUG == "waiting for unplug/replug..."

\* Mutant: the replug wait is a second `if`, not an `elif`.
em_entry_both ==
    /\ pc = "em_entry"
    /\ \E ok \in BOOLEAN : \E new_port \in BOOLEAN :
         LET first == IF inp.jlink_reset
                      THEN IF ok THEN <<STEP_JLINK, "JLink reset: OK", "using port">>
                           ELSE <<STEP_JLINK>>
                      ELSE <<>>
             second == IF inp.do_wait_for_replug
                       THEN IF new_port THEN <<STEP_REPLUG, "port reappeared">>
                            ELSE <<STEP_REPLUG>>
                       ELSE <<>>
         IN
         IF inp.jlink_reset /\ ~ok
         THEN /\ pc' = "em_return"
              /\ steps' = first
              /\ pending' = Fail("JLink reset failed", "")
         ELSE IF inp.do_wait_for_replug /\ ~new_port
         THEN /\ pc' = "em_return"
              /\ steps' = first \o second
              /\ pending' = Fail("Timed out waiting for board replug.", "")
         ELSE /\ pc' = "em_open1"
              /\ steps' = first \o second
              /\ UNCHANGED pending
    /\ UNCHANGED <<tmo, sess, link, comp, inp, attempt, ser, maint, wi, ws, fl,
                   em_ret, wi_ret, result, wire, calls>>

\* Lines 262-281: the entry strategy. reset_via_jlink succeeds or not;
\* wait_for_replug returns a port or None.
em_entry ==
    /\ pc = "em_entry"
    /\ IF inp.jlink_reset
       THEN \E ok \in BOOLEAN :
              IF ok
              THEN /\ pc' = "em_open1"
                   /\ steps' = <<STEP_JLINK, "JLink reset: OK", "using port">>
                   /\ UNCHANGED pending
              ELSE /\ pc' = "em_return"
                   /\ steps' = <<STEP_JLINK>>
                   /\ pending' = Fail("JLink reset failed", "")
       ELSE IF inp.do_wait_for_replug
       THEN \E new_port \in BOOLEAN :
              IF new_port
              THEN /\ pc' = "em_open1"
                   /\ steps' = <<STEP_REPLUG, "port reappeared">>
                   /\ UNCHANGED pending
              ELSE /\ pc' = "em_return"
                   /\ steps' = <<STEP_REPLUG>>
                   /\ pending' = Fail("Timed out waiting for board replug.", "")
       ELSE pc' = "em_open1" /\ UNCHANGED <<pending, steps>>
    /\ UNCHANGED <<tmo, sess, link, comp, inp, attempt, ser, maint, wi, ws, fl,
                   em_ret, wi_ret, result, wire, calls>>

\* Line 283, before the try block.
em_open1 ==
    /\ pc = "em_open1"
    /\ OpenSerialPass(OPEN_RETRIES, NONE, "em_isp1", "em_return")

\* Mutant: a START_ISP that failed on every attempt is not checked.
em_isp1_proceeds ==
    /\ pc = "em_isp1"
    /\ StartIspPass(NONE, "em_setmaint", "em_setmaint", pending, "em_close")

\* Lines 286-292: a failed START_ISP returns from inside the try block, which
\* has an except clause only.
em_isp1 ==
    /\ pc = "em_isp1"
    /\ StartIspPass(NONE, "em_setmaint", "em_return",
                    Fail("SE did not respond", ""), "em_close")

\* Lines 295-296: the result of send_cmd is not looked at.
em_setmaint ==
    /\ pc = "em_setmaint"
    /\ SendCmd(CMD_SET_MAINTENANCE, 0, 0, NONE,
               "em_stop1", pending, "em_stop1", pending, "em_close")

\* Lines 298-299.
em_stop1 ==
    /\ pc = "em_stop1"
    /\ SendCmd(CMD_STOP_ISP, 0, 0, NONE,
               "em_reset", pending, "em_reset", pending, "em_close")

\* Mutant: the port is left open after RESET_DEVICE.
em_reset_keeps_open ==
    /\ pc = "em_reset"
    /\ \/ /\ pc' = "em_close"
          /\ pending' = Raised
          /\ UNCHANGED <<ser, wire>>
       \/ /\ pc' = "em_open2"
          /\ wire' = Push(wire, EvSent(CMD_RESET_DEVICE))
          /\ UNCHANGED <<ser, pending>>
    /\ UNCHANGED <<aux, inp, attempt, maint, wi, ws, fl,
                   em_ret, wi_ret, result, calls>>

\* Lines 301-304: RESET_DEVICE is written, no response is read, the port is
\* closed.
em_reset ==
    /\ pc = "em_reset"
    /\ \/ /\ pc' = "em_close"
          /\ pending' = Raised
          /\ UNCHANGED <<ser, wire>>
       \/ /\ pc' = "em_open2"
          /\ ser' = "closed"
          /\ wire' = Push(Push(wire, EvSent(CMD_RESET_DEVICE)), EvClose(NONE))
          /\ UNCHANGED pending
    /\ UNCHANGED <<aux, inp, attempt, maint, wi, ws, fl,
                   em_ret, wi_ret, result, calls>>

\* Line 310, inside the try block.
em_open2 ==
    /\ pc = "em_open2"
    /\ OpenSerialPass(REOPEN_RETRIES, NONE, "em_isp2", "em_close")

\* Lines 314-320.
em_isp2 ==
    /\ pc = "em_isp2"
    /\ StartIspPass(NONE, "em_enquiry", "em_return",
                    Fail("SE not responding after reset", ""), "em_close")

\* Line 323: ok, data = send_cmd(ser, CMD_ENQUIRY).
em_enquiry ==
    /\ pc = "em_enquiry"
    /\ \/ /\ pc' = "em_close"
          /\ pending' = Raised
          /\ UNCHANGED <<wire, maint>>
       \/ \E rx \in Responses :
            LET resp == read_response(rx) IN
            /\ wire' = Push(wire, EvFrame(CMD_ENQUIRY, 0, 0, NONE, rx))
            /\ maint' = [ok |-> IsAck(resp.cmd), data |-> resp.data]
            /\ pc' = "em_stop2"
            /\ UNCHANGED pending
    /\ UNCHANGED <<aux, inp, attempt, ser, wi, ws, fl,
                   em_ret, wi_ret, result, calls>>

\* Lines 324-335: the flag is decoded, STOP_ISP is sent (its result is not
\* looked at) and the result is success with or without the flag.
em_stop2 ==
    /\ pc = "em_stop2"
    /\ SendCmd(CMD_STOP_ISP, 0, 0, NONE,
               "em_close", EmOk(MaintConfirmed(maint.ok, maint.data)),
               "em_close", EmOk(MaintConfirmed(maint.ok, maint.data)),
               "em_close")

\* ser.close() and leave: lines 327-328 and 333-335 (return), 336-338
\* (except: close and re-raise).
em_close ==
    /\ pc = "em_close"
    /\ CloseSer(NONE)
    /\ EndEm(pending)
    /\ UNCHANGED <<aux, inp, attempt, maint, wi, ws, pending, fl, calls>>

\* Leave without touching the port: the strategy failed (266, 275), the
\* first open_serial raised (283), or START_ISP failed (288, 316).
em_return ==
    /\ pc = "em_return"
    /\ EndEm(pending)
    /\ UNCHANGED <<aux, inp, attempt, ser, maint, wi, ws, pending, fl, wire, calls>>

\* ------------------------------------------------------------------------
\* _write_segment and write_image
\* ------------------------------------------------------------------------
\* Mutant: a full block of padding when the length is a multiple of 16.
PadAlways(orig) == 16 - (orig % 16)
\* Line 396: bytes of zero padding up to a multiple of 16.
Pad(orig) == (16 - (orig % 16)) % 16
\* Lines 394-397: the file's bytes, then the padding.
pad_image(data) == data \o [i \in 1..Pad(Len(data)) |-> 0]

\* Mutant: every segment is announced with the full segment size.
SegLenFull(w) == MAX_SEGMENT_SIZE
\* Line 417: len(data[seg_offset:seg_offset + MAX_SEGMENT_SIZE]).
SegLen(w) == Min(MAX_SEGMENT_SIZE, w.size - w.seg_offset)
\* Line 418.
SegAddr(w) == w.addr + w.seg_offset
\* Line 355.
TotalChunks(size) == (size + DATA_PER_CHUNK - 1) \div DATA_PER_CHUNK
\* Line 407.
NumSegments(size) == (size + MAX_SEGMENT_SIZE - 1) \div MAX_SEGMENT_SIZE
\* Line 359: len(data[offset:offset + DATA_PER_CHUNK]).
ChunkLen(s) == Min(DATA_PER_CHUNK, s.size - s.offset)
\* Line 360: struct.pack('<H', chunk_num), the two bytes in front of the
\* chunk's data, and the number they carry on the wire.
pack_H(n) == <<n % 256, (n \div 256) % 256>>
SeqOnWire(n) == pack_H(n)[1] + 256 * pack_H(n)[2]
\* Lines 348-349: struct.pack('<II', addr, size). addr is an offset from
\* 0x80000000, so bit 31 of the address is set in its top byte.
pack_I(n) ==
    <<n % 256, (n \div 256) % 256, (n \div 65536) % 256, (n \div 16777216) % 256>>
pack_addr(off) == [pack_I(off) EXCEPT ![4] = 128 + (pack_I(off)[4] % 128)]
\* Mutant: the size in front of the address.
pack_II_size_first(addr, size) == pack_I(size) \o pack_addr(addr)
pack_II(addr, size) == pack_addr(addr) \o pack_I(size)

\* Mutant: the truthiness test of line 369 in place of `is None`.
usb_drop_falsy(resp_cmd) == resp_cmd = NONE \/ resp_cmd = 0
\* Mutant: every failed chunk is taken for a USB drop.
usb_drop_always(resp_cmd) == TRUE
\* Line 371: "usb_drop": resp_cmd is None.
usb_drop(resp_cmd) == resp_cmd = NONE

\* Mutant: after the reconnect the transfer resumes from the next segment.
RetryNextSegment(w) ==
    [w EXCEPT !.seg_offset = w.seg_offset + SegLen(w), !.seg_num = w.seg_num + 1]

\* Mutant: the chunks of the attempt that was dropped stay counted.
RetryCountsChunks(w) == [w EXCEPT !.total_chunks = w.total_chunks + 1]

\* Lines 436-437: `continue` re-enters the loop with seg_offset, seg_num and
\* total_chunks as they were.
RetrySameSegment(w) == w

\* Mutant: the loop does not move on to the next segment.
NextSegmentStay(w, chunks) == w
\* Lines 440-442: a written segment is accounted for.
NextSegment(w, chunks) ==
    [w EXCEPT !.total_chunks = w.total_chunks + chunks,
              !.seg_offset = w.seg_offset + SegLen(w),
              !.seg_num = w.seg_num + 1]

WiOk(w) ==
    [Res("returned", TRUE, "", w.name)
     EXCEPT !.chunks = w.total_chunks, !.segments = NumSegments(w.size),
            !.original_bytes = w.orig, !.padded_bytes = w.size]

\* Lines 393-407: read the file, pad, initialise the counters.
wi_entry ==
    /\ pc = "wi_entry"
    /\ wi' = [wi EXCEPT !.size = wi.orig + Pad(wi.orig),
                        !.seg_offset = 0, !.seg_num = 0, !.total_chunks = 0]
    /\ calls' = Append(calls, wi.name)
    /\ pc' = "wi_open"
    /\ UNCHANGED <<aux, inp, attempt, ser, maint, ws, pending, fl,
                   em_ret, wi_ret, result, wire>>

\* Line 409, before the try block.
wi_open ==
    /\ pc = "wi_open"
    /\ OpenSerialPass(OPEN_RETRIES, wi.seg_num, "wi_isp", "wi_return")

\* Lines 410-413, before the try block: a raise leaves the port as it is.
wi_isp ==
    /\ pc = "wi_isp"
    /\ StartIspPass(wi.seg_num, "wi_loop", "wi_close",
                    Fail("START_ISP failed", wi.name), "wi_return")

\* Lines 412-413.
wi_close ==
    /\ pc = "wi_close"
    /\ CloseSer(wi.seg_num)
    /\ EndWi(pending)
    /\ UNCHANGED <<aux, inp, attempt, maint, wi, ws, pending, fl, calls>>

wi_return ==
    /\ pc = "wi_return"
    /\ EndWi(pending)
    /\ UNCHANGED <<aux, inp, attempt, ser, maint, wi, ws, pending, fl, wire, calls>>

\* Mutant: the chunk counter runs on from one segment to the next.
wi_loop_global_counter ==
    /\ pc = "wi_loop"
    /\ IF wi.seg_offset < wi.size
       THEN /\ ws' = [size |-> SegLen(wi), addr |-> SegAddr(wi),
                      offset |-> 0, chunk_num |-> ws.chunk_num]
            /\ pc' = "ws_burn"
            /\ UNCHANGED pending
       ELSE /\ pc' = "wi_finally"
            /\ pending' = WiOk(wi)
            /\ UNCHANGED ws
    /\ UNCHANGED <<aux, inp, attempt, ser, maint, wi, fl,
                   em_ret, wi_ret, result, wire, calls>>

\* Lines 416-421 and 344: the loop test and the call of _write_segment.
wi_loop ==
    /\ pc = "wi_loop"
    /\ IF wi.seg_offset < wi.size
       THEN /\ ws' = [size |-> SegLen(wi), addr |-> SegAddr(wi),
                      offset |-> 0, chunk_num |-> 0]
            /\ pc' = "ws_burn"
            /\ UNCHANGED pending
       ELSE /\ pc' = "wi_finally"
            /\ pending' = WiOk(wi)
            /\ UNCHANGED ws
    /\ UNCHANGED <<aux, inp, attempt, ser, maint, wi, fl,
                   em_ret, wi_ret, result, wire, calls>>

\* Lines 348-351 and 422, 438: a BURN_MRAM that is not acknowledged fails the
\* segment without a usb_drop key, so write_image returns.
ws_burn ==
    /\ pc = "ws_burn"
    /\ SendCmd(CMD_BURN_MRAM, ws.addr, ws.size, wi.seg_num,
               "ws_chunk", pending,
               "wi_finally", Fail("BURN_MRAM rejected", wi.name),
               "wi_finally")

\* Mutant: the next chunk is written whatever the response to this one was.
ChunkAcceptedAny(resp_cmd) == TRUE
\* Line 368: `resp_cmd not in (CMD_ACK, CMD_DATA_RESP)` ends the segment.
ChunkAccepted(resp_cmd) == IsAck(resp_cmd)

\* Lines 358-376 and 422-430, 438: one chunk. A failed chunk returns from
\* _write_segment; write_image then reconnects (usb_drop) or returns.
ws_chunk ==
    /\ pc = "ws_chunk"
    /\ \/ /\ pc' = "wi_finally"
          /\ pending' = Raised
          /\ UNCHANGED <<wire, ws>>
       \/ \E rx \in Responses :
            LET resp_cmd == read_response(rx).cmd IN
            /\ wire' = Push(wire, EvFrame(CMD_DOWNLOAD_DATA,
                                          SeqOnWire(ws.chunk_num),
                                          ChunkLen(ws), wi.seg_num, rx))
            /\ IF ~ChunkAccepted(resp_cmd)
               THEN /\ UNCHANGED ws
                    /\ IF usb_drop(resp_cmd)
                       THEN pc' = "wi_drop" /\ UNCHANGED pending
                       ELSE /\ pc' = "wi_finally"
                            /\ pending' = Fail("Chunk failed", wi.name)
               ELSE /\ ws' = [ws EXCEPT !.offset = ws.offset + ChunkLen(ws),
                                        !.chunk_num = ws.chunk_num + 1]
                    /\ pc' = IF ws'.offset < ws.size THEN "ws_chunk" ELSE "ws_done"
                    /\ UNCHANGED pending
    /\ UNCHANGED <<aux, inp, attempt, ser, maint, wi, fl,
                   em_ret, wi_ret, result, calls>>

\* Lines 382-383 and 440-442: DOWNLOAD_DONE (result not looked at), then the
\* segment is accounted for.
ws_done ==
    /\ pc = "ws_done"
    /\ \/ /\ pc' = "wi_finally"
          /\ pending' = Raised
          /\ UNCHANGED <<wire, wi>>
       \/ \E rx \in Responses :
            /\ wire' = Push(wire, EvFrame(CMD_DOWNLOAD_DONE, 0, 0, wi.seg_num, rx))
            /\ wi' = NextSegment(wi, TotalChunks(ws.size))
            /\ pc' = "wi_loop"
            /\ UNCHANGED pending
    /\ UNCHANGED <<aux, inp, attempt, ser, maint, ws, fl,
                   em_ret, wi_ret, result, calls>>

\* Lines 426-430: close the dropped port (errors swallowed).
wi_drop ==
    /\ pc = "wi_drop"
    /\ CloseSer(wi.seg_num)
    /\ pc' = "wi_reopen"
    /\ UNCHANGED <<aux, inp, attempt, maint, wi, ws, pending, fl,
                   em_ret, wi_ret, result, calls>>

\* Line 431.
wi_reopen ==
    /\ pc = "wi_reopen"
    /\ OpenSerialPass(REOPEN_RETRIES, wi.seg_num, "wi_reisp", "wi_finally")

\* Mutant: the segment is retried although START_ISP was not acknowledged.
wi_reisp_goes_on ==
    /\ pc = "wi_reisp"
    /\ \/ /\ pc' = "wi_finally"
          /\ attempt' = 0
          /\ pending' = Raised
          /\ UNCHANGED <<wire, wi>>
       \/ \E rx \in Responses :
            /\ wire' = Push(wire, EvFrame(CMD_START_ISP, 0, 0, wi.seg_num, rx))
            /\ UNCHANGED pending
            /\ IF IsAck(read_response(rx).cmd)
               THEN /\ pc' = "wi_loop"
                    /\ attempt' = 0
                    /\ wi' = RetrySameSegment(wi)
               ELSE /\ UNCHANGED wi
                    /\ IF attempt < START_ISP_RETRIES - 1
                       THEN pc' = pc /\ attempt' = attempt + 1
                       ELSE pc' = "wi_loop" /\ attempt' = 0
    /\ UNCHANGED <<aux, inp, ser, maint, ws, fl, em_ret, wi_ret, result, calls>>

\* Lines 432-437: START_ISP on the reopened port, then retry the segment.
wi_reisp ==
    /\ pc = "wi_reisp"
    /\ \/ /\ pc' = "wi_finally"
          /\ attempt' = 0
          /\ pending' = Raised
          /\ UNCHANGED <<wire, wi>>
       \/ \E rx \in Responses :
            /\ wire' = Push(wire, EvFrame(CMD_START_ISP, 0, 0, wi.seg_num, rx))
            /\ IF IsAck(read_response(rx).cmd)
               THEN /\ pc' = "wi_loop"
                    /\ attempt' = 0
                    /\ wi' = RetrySameSegment(wi)
                    /\ UNCHANGED pending
               ELSE /\ UNCHANGED wi
                    /\ IF attempt < START_ISP_RETRIES - 1
                       THEN pc' = pc /\ attempt' = attempt + 1 /\ UNCHANGED pending
                       ELSE /\ pc' = "wi_finally"
                            /\ attempt' = 0
                            /\ pending' = Fail("Failed to reconnect after USB drop",
                                               wi.name)
    /\ UNCHANGED <<aux, inp, ser, maint, ws, fl, em_ret, wi_ret, result, calls>>

\* Lines 443-451, then the return or the raise that was under way. On a
\* closed port send_cmd raises PortNotOpenError, which is swallowed like a
\* failed write.
wi_finally ==
    /\ pc = "wi_finally"
    /\ IF ser = "open"
       THEN \/ wire' = Push(wire, EvClose(wi.seg_num))
            \/ \E rx \in Responses :
                 wire' = Push(Push(wire, EvFrame(CMD_STOP_ISP, 0, 0, wi.seg_num, rx)),
                              EvClose(wi.seg_num))
       ELSE UNCHANGED wire
    /\ ser' = "closed"
    /\ EndWi(pending)
    /\ UNCHANGED <<aux, inp, attempt, maint, wi, ws, pending, fl, calls>>

\* ------------------------------------------------------------------------
\* flash_images
\* ------------------------------------------------------------------------
\* Size of AppTocPackage.bin when it exists.
AtocImage ==
    [name |-> "AppTocPackage.bin", size |-> TinySize,
     addr |-> SYSTEM_MRAM_BASE - TinySize]

\* Lines 500-507: the entries that are flashed.
Enabled(entries) == SelectSeq(entries, LAMBDA e : ~e.disabled)

\* Lines 510-511: an enabled entry whose binary is not on disk.
MissingBinary(t) == \E i \in 1..Len(t.entries) :
                        ~t.entries[i].disabled /\ ~t.entries[i].exists

\* Lines 491-512: the table-of-contents package first, when it exists, then
\* the table's entries in their order.
Images(t) ==
    (IF t.atoc THEN <<AtocImage>> ELSE <<>>)
    \o [i \in 1..Len(Enabled(t.entries)) |->
          [name |-> Enabled(t.entries)[i].binary,
           size |-> Enabled(t.entries)[i].size,
           addr |-> Enabled(t.entries)[i].addr]]

\* Mutant: the loop goes on after a failed image.
NeverStop(r) == FALSE
\* Line 524.
StopAtFailure(r) == ~r.success

FlOk == Res("returned", TRUE, "All images written", "")

\* The locals write_image starts from when called with image im.
WiCall(im) == [NoWi EXCEPT !.name = im.name, !.addr = im.addr, !.orig = im.size]

\* Lines 472-474.
fl_entry ==
    /\ pc = "fl_entry"
    /\ pc' = IF inp.enter_maint THEN "em_entry" ELSE "fl_resolve"
    /\ UNCHANGED <<aux, inp, attempt, ser, maint, wi, ws, pending, fl,
                   em_ret, wi_ret, result, wire, calls>>

\* Mutant: the images are written whatever enter_maintenance returned.
fl_after_maint_goes_on ==
    /\ pc = "fl_after_maint"
    /\ IF em_ret.kind = "raised" THEN EndTop(Raised)
       ELSE pc' = "fl_resolve" /\ UNCHANGED <<em_ret, wi_ret, result>>
    /\ UNCHANGED <<aux, inp, attempt, ser, maint, wi, ws, pending, fl, wire, calls>>

\* Lines 475-478.
fl_after_maint ==
    /\ pc = "fl_after_maint"
    /\ IF em_ret.kind = "raised" THEN EndTop(Raised)
       ELSE IF ~em_ret.success
       THEN EndTop(Fail("Failed to enter maintenance mode", ""))
       ELSE pc' = "fl_resolve" /\ UNCHANGED <<em_ret, wi_ret, result>>
    /\ UNCHANGED <<aux, inp, attempt, ser, maint, wi, ws, pending, fl, wire, calls>>

\* Lines 480-521: read the table, check the binaries, call write_image for
\* the first image.
fl_resolve ==
    /\ pc = "fl_resolve"
    /\ IF MissingBinary(inp.table)
       THEN EndTop(Fail("Image not found", "")) /\ UNCHANGED <<fl, wi>>
       ELSE IF Images(inp.table) = <<>>
       THEN EndTop(Fail("No images found in config", "")) /\ UNCHANGED <<fl, wi>>
       ELSE /\ fl' = [images |-> Images(inp.table), idx |-> 1, results |-> <<>>]
            /\ wi' = WiCall(Images(inp.table)[1])
            /\ pc' = "wi_entry"
            /\ UNCHANGED <<em_ret, wi_ret, result>>
    /\ UNCHANGED <<aux, inp, attempt, ser, maint, ws, pending, wire, calls>>

\* Lines 521-528: the result of one write_image, and the next call.
fl_after_write ==
    /\ pc = "fl_after_write"
    /\ IF wi_ret.kind = "raised"
       THEN EndTop(Raised) /\ UNCHANGED <<fl, wi>>
       ELSE IF StopAtFailure(wi_ret)
       THEN /\ EndTop(Fail("Failed writing", wi_ret.file))
            /\ fl' = [fl EXCEPT !.results = Append(fl.results, wi_ret)]
            /\ UNCHANGED wi
       ELSE /\ UNCHANGED <<em_ret, wi_ret, result>>
            /\ IF fl.idx < Len(fl.images)
               THEN /\ fl' = [fl EXCEPT !.results = Append(fl.results, wi_ret),
                                        !.idx = fl.idx + 1]
                    /\ wi' = WiCall(fl.images[fl.idx + 1])
                    /\ pc' = "wi_entry"
               ELSE /\ fl' = [fl EXCEPT !.results = Append(fl.results, wi_ret)]
                    /\ pc' = "fl_reset_open"
                    /\ UNCHANGED wi
    /\ UNCHANGED <<aux, inp, attempt, ser, maint, ws, pending, wire, calls>>

\* Line 531, before the try block.
fl_reset_open ==
    /\ pc = "fl_reset_open"
    /\ OpenSerialPass(OPEN_RETRIES, NONE, "fl_reset_isp", "fl_return")

\* Line 533: the result of start_isp is not looked at.
fl_reset_isp ==
    /\ pc = "fl_reset_isp"
    /\ StartIspPass(NONE, "fl_reset_stop", "fl_reset_stop", pending, "fl_reset_finally")

\* Line 534.
fl_reset_stop ==
    /\ pc = "fl_reset_stop"
    /\ SendCmd(CMD_STOP_ISP, 0, 0, NONE,
               "fl_reset_write", pending, "fl_reset_write", pending,
               "fl_reset_finally")

\* Lines 535-536: RESET_DEVICE is written, no response is read.
fl_reset_write ==
    /\ pc = "fl_reset_write"
    /\ \/ /\ pending' = Raised
          /\ UNCHANGED wire
       \/ /\ wire' = Push(wire, EvSent(CMD_RESET_DEVICE))
          /\ pending' = FlOk
    /\ pc' = "fl_reset_finally"
    /\ UNCHANGED <<aux, inp, attempt, ser, maint, wi, ws, fl,
                   em_ret, wi_ret, result, calls>>

\* Lines 537-547: finally: ser.close(), then the return or the raise.
fl_reset_finally ==
    /\ pc = "fl_reset_finally"
    /\ CloseSer(NONE)
    /\ EndTop(pending)
    /\ UNCHANGED <<aux, inp, attempt, maint, wi, ws, pending, fl, calls>>

fl_return ==
    /\ pc = "fl_return"
    /\ EndTop(pending)
    /\ UNCHANGED <<aux, inp, attempt, ser, maint, wi, ws, pending, fl, wire, calls>>

\* ------------------------------------------------------------------------
\* Specification
\* ------------------------------------------------------------------------
Next ==
    \/ pr_open \/ pr_isp \/ pr_enquiry \/ pr_stop \/ pr_finally \/ pr_return
    \/ em_entry \/ em_open1 \/ em_isp1 \/ em_setmaint \/ em_stop1 \/ em_reset
    \/ em_open2 \/ em_isp2 \/ em_enquiry \/ em_stop2 \/ em_close \/ em_return
    \/ wi_entry \/ wi_open \/ wi_isp \/ wi_close \/ wi_return \/ wi_loop
    \/ ws_burn \/ ws_chunk \/ ws_done
    \/ wi_drop \/ wi_reopen \/ wi_reisp \/ wi_finally
    \/ fl_entry \/ fl_after_maint \/ fl_resolve \/ fl_after_write
    \/ fl_reset_open \/ fl_reset_isp \/ fl_reset_stop \/ fl_reset_write
    \/ fl_reset_finally \/ fl_return

Spec == Init /\ [][Next]_vars

\* The thread of control keeps running: every sleep and every read timeout
\* of the code is finite, so a step that is possible is eventually taken.
FairSpec == Spec /\ WF_vars(Next)

\* ------------------------------------------------------------------------
\* The codec and the image arithmetic on their own: make_packet,
\* read_response, the padding of write_image and the BURN_MRAM frames of an
\* image's segments, applied to inputs drawn from bounded sets.
\* ------------------------------------------------------------------------
\* Payloads up to this length are enumerated over ByteValues.
MaxPayload == 3
\* The length of a long payload.
LongPayload == 250
\* Files up to this length are padded.
MaxImageLen == 40
\* Line 47: bytes([length]) takes a value up to 255.
FRAME_LENGTH_LIMIT == 255

ByteValues == {0, 1, 128, 255}
CommandIds == {CMD_START_ISP, CMD_DOWNLOAD_DATA, CMD_BURN_MRAM, CMD_ENQUIRY,
               CMD_SET_MAINTENANCE, CMD_DATA_RESP, CMD_ACK, 255}
ShortPayloads == UNION {[1..k -> ByteValues] : k \in 0..MaxPayload}
\* A payload of n bytes, none of them zero.
Filled(n) == [i \in 1..n |-> 1 + ((7 * i) % 255)]
LongPayloads ==
    {Filled(LongPayload), Filled(FRAME_LENGTH_LIMIT - 3),
     Filled(FRAME_LENGTH_LIMIT - 2)}

\* The longest sequence a checksum is computed of.
MaxChecksumLen == 256
\* bytes(range(n)): 0, 1, 2, ...
Ramp(n) == [i \in 1..n |-> (i - 1) % 256]
ChecksumInputs ==
    ShortPayloads
    \cup {Filled(n) : n \in {MaxChecksumLen - 1, MaxChecksumLen}}
    \cup {Ramp(n) : n \in {MaxChecksumLen - 1, MaxChecksumLen}}

PureCall(op, cmd, data, addr, size) ==
    [op |-> op, cmd |-> cmd, data |-> data, addr |-> addr, size |-> size]

\* The frames whose prefixes read_response is given.
SampleFrames ==
    {make_packet(CMD_ACK, <<>>),
     make_packet(CMD_DATA_RESP, EnquiryMaint),
     make_packet(CMD_DATA_RESP, <<1, 2>>),
     make_packet(255, <<7>>)}
\* A frame that arrives with its last byte changed.
Corrupt(f) == [f EXCEPT ![Len(f)] = (f[Len(f)] + 1) % 256]
Streams ==
    {Take(f, k) : f \in SampleFrames, k \in 0..(FRAME_LENGTH_LIMIT)}
    \cup {<<0>>, <<1>>, <<1, CMD_ACK, 1>>}
    \cup {Corrupt(f) : f \in SampleFrames}

\* File lengths of the images whose segments are computed: one segment,
\* exactly one, one and a half (300 KiB), exactly two, two and a bit.
ImageLengths ==
    {TinySize, SmallSize, MAX_SEGMENT_SIZE, 307200, BigSize,
     2 * MAX_SEGMENT_SIZE, 2 * MAX_SEGMENT_SIZE + 1}

\* open_serial's `retries`: none, one, the default (line 185) and the
\* reconnects' (lines 310, 431).
RetryCounts == {0, 1, OPEN_RETRIES, REOPEN_RETRIES}

\* uart-mcp send_command: the largest idle timeout and the longest pass of
\* the read loop, in ticks of one second.
MaxIdleTimeout == 2
MaxPass == 3
\* serial_session.py line 114: max(timeout * 20, 10).
OVERALL_FACTOR == 20
OVERALL_FLOOR == 10
\* Where the clock stops: later than any overall deadline can be passed.
MaxClock == OVERALL_FACTOR * MaxIdleTimeout + OVERALL_FLOOR + MaxPass
\* ospi_rtt.py lines 23-37: command ids, the response flag and statuses.
CMD_PING == 1
CMD_READ_ID == 2
CMD_ERASE == 3
RESP_FLAG == 128
STATUS_OK == 0
STATUS_TIMEOUT == 1
STATUS_FLASH_ERR == 4
\* Line 72: the mask of _next_seq.
SEQ_MASK == 65535
\* How many commands one OspiProgrammer sends in a run.
MaxCommands == 4
\* The value of _seq when the run begins: 0 for a programmer just
\* constructed (line 69); SEQ_MASK - 2 for one that has sent that many
\* commands, so that the run crosses the 16-bit limit.
OspiStarts == {0, SEQ_MASK - 2}
\* How many runs of bytes reach the input buffer during one send_cmd.
MaxArrivals == 2
\* wait_for_replug's timeouts, counted in polls of the port list.
MaxDisappearTicks == 3
MaxTotalTicks == 5
\* Line 108: the device nodes find_se_uart can list.
SePorts == {"/dev/cu.usbmodem1", "/dev/cu.usbserial2"}
\* Lines 109 and 135: the first of the sorted list.
FirstPort(ports) ==
    IF "/dev/cu.usbmodem1" \in ports THEN "/dev/cu.usbmodem1"
    ELSE "/dev/cu.usbserial2"

PureInputs ==
    {PureCall("make_packet", c, d, 0, 0) :
        c \in CommandIds, d \in ShortPayloads \cup LongPayloads}
    \cup {PureCall("make_packet", c, d, 0, 0) :
            c \in 0..255, d \in {<<>>, <<255>>}}
    \cup {PureCall("read_response", 0, b, 0, 0) : b \in Streams}
    \cup {PureCall("pad", 0, Filled(n), 0, 0) : n \in 0..MaxImageLen}
    \cup {PureCall("calc_checksum", 0, d, 0, 0) : d \in ChecksumInputs}
    \cup {PureCall("send_cmd", c, d, 0, 0) :
            c \in CommandIds, d \in {<<>>, <<1, 2>>}}
    \cup {PureCall("segments", 0, <<>>, a, n) :
            a \in {0, 3145728}, n \in ImageLengths}
    \cup {PureCall("open_serial", 0, <<>>, 0, retries) : retries \in RetryCounts}
    \cup {PureCall("chunk_response", 0, b, 0, 0) :
            b \in {f : f \in SampleFrames} \cup {Corrupt(f) : f \in SampleFrames}
                  \cup {<<>>, <<3>>}}
    \cup {PureCall("send_cmd_buffered", c, <<>>, 0, 0) :
            c \in {CMD_START_ISP, CMD_ENQUIRY}}
    \cup {PureCall("send_command", wait_for, <<>>, 0, timeout) :
            wait_for \in {0, 1}, timeout \in 0..MaxIdleTimeout}
    \cup {PureCall("ospi", 0, <<>>, start, 0) : start \in OspiStarts}
    \cup {PureCall("wait_for_replug", 0, <<>>, td, tt) :
            td \in {0, MaxDisappearTicks - 1, MaxDisappearTicks},
            tt \in {MaxTotalTicks - 2, MaxTotalTicks}}

PureInit ==
    /\ inp \in PureInputs
    /\ pc = inp.op
    /\ attempt = 0
    /\ ser = "none"
    /\ maint = NoEnquiry
    /\ wi = IF inp.op = "segments"
            THEN [NoWi EXCEPT !.addr = inp.addr, !.orig = inp.size,
                              !.size = inp.size + Pad(inp.size)]
            ELSE NoWi
    /\ ws = NoWs
    /\ pending = NoRes
    /\ fl = [images |-> <<>>, idx |-> 0, results |-> <<>>]
    /\ em_ret = NoRes
    /\ wi_ret = NoRes
    /\ result = <<>>
    /\ wire = <<>>
    /\ calls = <<>>
    /\ AuxIdle

\* calc_checksum(data).
cs_call ==
    /\ pc = "calc_checksum"
    /\ result' = calc_checksum(inp.data)
    /\ pc' = "summed"
    /\ UNCHANGED <<aux, inp, attempt, ser, maint, wi, ws, pending, fl,
                   em_ret, wi_ret, wire, calls>>

\* What the device may answer to one frame: nothing, whole frames with an
\* accepted or another code, frames cut short, and an ACK frame whose
\* checksum is wrong.
Answers == Streams \cup {<<3, CMD_ACK, 0>>}

\* send_cmd, lines 84-87: the frame is built and written; flushing the input
\* or writing may raise.
sc_write ==
    /\ pc = "send_cmd"
    /\ \/ pc' = "raised" /\ UNCHANGED wire
       \/ /\ wire' = Append(wire, [dir |-> "tx",
                                   bytes |-> make_packet(inp.cmd, inp.data)])
          /\ pc' = "sc_read"
    /\ UNCHANGED <<aux, inp, attempt, ser, maint, wi, ws, pending, fl,
                   em_ret, wi_ret, result, calls>>

\* send_cmd, lines 90-104: one read_response, and the verdict on its
\* command id.
sc_read ==
    /\ pc = "sc_read"
    /\ \E rx \in {[err |-> FALSE, bytes |-> b] : b \in Answers}
                 \cup {[err |-> TRUE, bytes |-> <<>>]} :
         /\ wire' = Append(wire, [dir |-> "rx", bytes |-> rx.bytes])
         /\ result' = [ok |-> IsAck(read_response(rx).cmd),
                       data |-> read_response(rx).data]
    /\ pc' = "returned"
    /\ UNCHANGED <<aux, inp, attempt, ser, maint, wi, ws, pending, fl,
                   em_ret, wi_ret, calls>>

\* make_packet(cmd, data); bytes([length]) raises ValueError for a length
\* above 255.
mp_call ==
    /\ pc = "make_packet"
    /\ IF Len(inp.data) + 3 <= FRAME_LENGTH_LIMIT
       THEN result' = make_packet(inp.cmd, inp.data) /\ pc' = "framed"
       ELSE result' = <<>> /\ pc' = "ValueError"
    /\ UNCHANGED <<aux, inp, attempt, ser, maint, wi, ws, pending, fl,
                   em_ret, wi_ret, wire, calls>>

\* read_response on a stream that holds exactly the frame just built.
rr_frame ==
    /\ pc = "framed"
    /\ result' = read_response([err |-> FALSE, bytes |-> result])
    /\ pc' = "decoded"
    /\ UNCHANGED <<aux, inp, attempt, ser, maint, wi, ws, pending, fl,
                   em_ret, wi_ret, wire, calls>>

\* read_response on a stream that ends early, or does not. Lines 54-58:
\* the port's timeout is saved and set; an assignment that raises ends the
\* call, and what the attribute holds then is the library's business.
rr_call ==
    /\ pc = "read_response"
    /\ \E timeout \in {DEFAULT_TIMEOUT, CHUNK_TIMEOUT} :
         \/ /\ tmo' = [ser |-> timeout, old_timeout |-> tmo.ser, fault |-> FALSE]
            /\ pc' = "rr_read"
            /\ UNCHANGED result
         \/ /\ \E t \in {tmo.ser, timeout} :
                 tmo' = [ser |-> t, old_timeout |-> tmo.ser, fault |-> TRUE]
            /\ result' = NoResponse
            /\ pc' = "decoded"
    /\ UNCHANGED <<sess, link, steps, comp, inp, attempt, ser, maint, wi, ws, pending, fl,
                   em_ret, wi_ret, wire, calls>>

\* Lines 59-73: the reads, which may raise a serial error.
rr_read ==
    /\ pc = "rr_read"
    /\ \E rx \in {[err |-> FALSE, bytes |-> inp.data],
                  [err |-> TRUE, bytes |-> <<>>]} :
         result' = read_response(rx)
    /\ pc' = "rr_finally"
    /\ UNCHANGED <<aux, inp, attempt, ser, maint, wi, ws, pending, fl,
                   em_ret, wi_ret, wire, calls>>

\* Mutant: the timeout is left as read_response set it.
rr_finally_no_restore ==
    /\ pc = "rr_finally"
    /\ pc' = "decoded"
    /\ UNCHANGED <<aux, inp, attempt, ser, maint, wi, ws, pending, fl,
                   em_ret, wi_ret, result, wire, calls>>

\* Lines 74-78: finally, the saved timeout is put back; an assignment that
\* raises is swallowed.
rr_finally ==
    /\ pc = "rr_finally"
    /\ \/ tmo' = [tmo EXCEPT !.ser = tmo.old_timeout]
       \/ \E t \in {tmo.ser, tmo.old_timeout} :
            tmo' = [tmo EXCEPT !.ser = t, !.fault = TRUE]
    /\ pc' = "decoded"
    /\ UNCHANGED <<sess, link, steps, comp, inp, attempt, ser, maint, wi, ws, pending, fl,
                   em_ret, wi_ret, result, wire, calls>>

\* Lines 394-398 of write_image.
pad_call ==
    /\ pc = "pad"
    /\ result' = pad_image(inp.data)
    /\ pc' = "padded"
    /\ UNCHANGED <<aux, inp, attempt, ser, maint, wi, ws, pending, fl,
                   em_ret, wi_ret, wire, calls>>

\* The loop of write_image against a device that acknowledges everything:
\* the BURN_MRAM frame of each segment, in the order they are written.
sg_step ==
    /\ pc = "segments"
    /\ IF wi.seg_offset < wi.size
       THEN /\ result' = Append(result,
                                make_packet(CMD_BURN_MRAM,
                                            pack_II(SegAddr(wi), SegLen(wi))))
            /\ wi' = NextSegment(wi, TotalChunks(SegLen(wi)))
            /\ pc' = pc
       ELSE /\ pc' = "written"
            /\ UNCHANGED <<result, wi>>
    /\ UNCHANGED <<aux, inp, attempt, ser, maint, ws, pending, fl,
                   em_ret, wi_ret, wire, calls>>

\* Lines 187-204, one pass of open_serial's loop: serial.Serial raises, or
\* the port opens and the drain of lines 192-194 raises (the port is closed,
\* line 196), or the port is returned. result is the list of the attempts'
\* outcomes. With retries = 0 the loop body never runs and the function
\* ends without a port.
os_attempt ==
    /\ pc = "open_serial"
    /\ IF inp.size = 0
       THEN pc' = "returned_none" /\ UNCHANGED <<attempt, ser, result>>
       ELSE \E o \in {"ok", "fail", "not_ready"} :
              /\ result' = Append(result, o)
              /\ IF o = "ok"
                 THEN pc' = "returned" /\ ser' = "open" /\ UNCHANGED attempt
                 ELSE /\ ser' = IF o = "not_ready" THEN "closed" ELSE ser
                      /\ IF MoreAttempts(attempt, inp.size)
                         THEN pc' = pc /\ attempt' = attempt + 1
                         ELSE pc' = "raised" /\ UNCHANGED attempt
    /\ UNCHANGED <<aux, inp, maint, wi, ws, pending, fl,
                   em_ret, wi_ret, wire, calls>>

\* Line 118 of wait_for_replug: start = time.time(). `attempt` is the time
\* since then; polls is what find_se_uart returned, call by call.
wr_start ==
    /\ pc = "wait_for_replug"
    /\ comp' = [polls |-> <<>>, ret |-> "-"]
    /\ attempt' = 0
    /\ pc' = "wr_disappear"
    /\ UNCHANGED <<tmo, sess, link, steps, inp, ser, maint, wi, ws, pending, fl,
                   em_ret, wi_ret, result, wire, calls>>

\* Mutant: the first loop ends at its first poll.
GoneAlways(ports) == TRUE
\* Line 123: `if not ports`.
Gone(ports) == ports = {}

\* Lines 121-129: poll until the list is empty or the disappear timeout is
\* over. A pass of the loop takes one tick or more.
wr_disappear ==
    /\ pc = "wr_disappear"
    /\ IF attempt < inp.addr
       THEN \E ports \in SUBSET SePorts :
              /\ comp' = [comp EXCEPT !.polls = Append(@, ports)]
              /\ IF Gone(ports)
                 THEN pc' = "wr_reappear" /\ UNCHANGED attempt
                 ELSE pc' = pc /\ \E d \in 1..2 : attempt' = attempt + d
       ELSE /\ pc' = "wr_none"
            /\ comp' = [comp EXCEPT !.ret = "None"]
            /\ UNCHANGED attempt
    /\ UNCHANGED <<tmo, sess, link, steps, inp, ser, maint, wi, ws, pending, fl,
                   em_ret, wi_ret, result, wire, calls>>

\* Lines 132-142: poll until a port is listed or the total timeout is over.
wr_reappear ==
    /\ pc = "wr_reappear"
    /\ IF attempt < inp.size
       THEN \E ports \in SUBSET SePorts :
              IF ports # {}
              THEN /\ comp' = [comp EXCEPT !.polls = Append(@, ports),
                                           !.ret = FirstPort(ports)]
                   /\ pc' = "wr_port"
                   /\ UNCHANGED attempt
              ELSE /\ comp' = [comp EXCEPT !.polls = Append(@, ports)]
                   /\ pc' = pc
                   /\ \E d \in 1..2 : attempt' = attempt + d
       ELSE /\ pc' = "wr_none"
            /\ comp' = [comp EXCEPT !.ret = "None"]
            /\ UNCHANGED attempt
    /\ UNCHANGED <<tmo, sess, link, steps, inp, ser, maint, wi, ws, pending, fl,
                   em_ret, wi_ret, result, wire, calls>>

\* send_cmd on a port whose input buffer may hold bytes when the call
\* begins. in_waiting is the input buffer, each run of bytes marked with the
\* moment it arrived; effects is what the call has done to the port.
sb_call ==
    /\ pc = "send_cmd_buffered"
    /\ \E stale \in {<<>>, <<"before_call">>} :
         comp' = [in_waiting |-> stale, at_call |-> stale,
                  effects |-> <<>>, arrivals |-> 0, decoded |-> "-"]
    /\ pc' = "sb_flush"
    /\ UNCHANGED <<tmo, sess, link, steps, inp, attempt, ser, maint, wi, ws,
                   pending, fl, em_ret, wi_ret, result, wire, calls>>

\* Mutant: the input buffer is not emptied.
sb_flush_skipped ==
    /\ pc = "sb_flush"
    /\ comp' = [comp EXCEPT !.effects = Append(@, "flush")]
    /\ pc' = "sb_write"
    /\ UNCHANGED <<tmo, sess, link, steps, inp, attempt, ser, maint, wi, ws,
                   pending, fl, em_ret, wi_ret, result, wire, calls>>

\* Line 85: ser.reset_input_buffer().
sb_flush ==
    /\ pc = "sb_flush"
    /\ comp' = [comp EXCEPT !.in_waiting = <<>>,
                            !.effects = Append(@, "flush")]
    /\ pc' = "sb_write"
    /\ UNCHANGED <<tmo, sess, link, steps, inp, attempt, ser, maint, wi, ws,
                   pending, fl, em_ret, wi_ret, result, wire, calls>>

\* Lines 86-88: ser.write(pkt), ser.flush(), the settle delay.
sb_write ==
    /\ pc = "sb_write"
    /\ comp' = [comp EXCEPT !.effects = Append(@, "write")]
    /\ pc' = "sb_decode"
    /\ UNCHANGED <<tmo, sess, link, steps, inp, attempt, ser, maint, wi, ws,
                   pending, fl, em_ret, wi_ret, result, wire, calls>>

\* The device's bytes reach the input buffer when they do: a late answer to
\* an earlier command at any moment of the call, the answer to this command
\* after its frame was written.
sb_arrive ==
    /\ pc \in {"sb_flush", "sb_write", "sb_decode"}
    /\ comp.arrivals < MaxArrivals
    /\ comp' = [comp EXCEPT
                  !.arrivals = @ + 1,
                  !.in_waiting =
                     Append(@, CASE pc = "sb_flush" -> "before_flush"
                                 [] pc = "sb_write" -> "before_write"
                                 [] pc = "sb_decode" -> "after_write")]
    /\ UNCHANGED <<tmo, sess, link, steps, inp, pc, attempt, ser, maint, wi, ws,
                   pending, fl, em_ret, wi_ret, result, wire, calls>>

\* Line 90: the one read_response, which reads from the front of the input
\* buffer, or times out on an empty one.
sb_decode ==
    /\ pc = "sb_decode"
    /\ comp' = [comp EXCEPT
                  !.effects = Append(@, "decode"),
                  !.decoded = IF comp.in_waiting = <<>> THEN "none"
                              ELSE Head(comp.in_waiting),
                  !.in_waiting = IF comp.in_waiting = <<>> THEN <<>>
                                 ELSE Tail(comp.in_waiting)]
    /\ pc' = "returned"
    /\ UNCHANGED <<tmo, sess, link, steps, inp, attempt, ser, maint, wi, ws,
                   pending, fl, em_ret, wi_ret, result, wire, calls>>

\* _write_segment lines 367-371: the response to one chunk is read and
\* judged.
wc_read ==
    /\ pc = "chunk_response"
    /\ LET resp_cmd == read_response([err |-> FALSE, bytes |-> inp.data]).cmd
       IN result' = [accepted |-> ChunkAccepted(resp_cmd),
                     usb_drop |-> ~ChunkAccepted(resp_cmd) /\ usb_drop(resp_cmd)]
    /\ pc' = "judged"
    /\ UNCHANGED <<aux, inp, attempt, ser, maint, wi, ws, pending, fl,
                   em_ret, wi_ret, wire, calls>>

\* serial_session.py lines 107-114, send_command up to its loop: the
\* command is written, the pattern compiled and the two deadlines are set.
\* now is time.monotonic() since the call began.
sn_call ==
    /\ pc = "send_command"
    /\ comp' = [now |-> 0,
                deadline |-> inp.size,
                max_deadline |-> IF inp.size * OVERALL_FACTOR > OVERALL_FLOOR
                                 THEN inp.size * OVERALL_FACTOR
                                 ELSE OVERALL_FLOOR,
                pattern |-> inp.cmd = 1,
                output |-> "",
                stopped |-> "-"]
    /\ pc' = "sn_loop"
    /\ UNCHANGED <<tmo, sess, link, steps, inp, attempt, ser, maint, wi, ws,
                   pending, fl, em_ret, wi_ret, result, wire, calls>>

\* Mutant: the loop looks at the idle deadline only.
KeepReadingIdleOnly(c) == c.now < c.deadline
\* Line 116: the loop's condition.
KeepReading(c) == c.now < c.deadline /\ c.now < c.max_deadline

\* Lines 116-125, one pass of the loop: a read that returns bytes (which
\* complete a match of the pattern or do not) or nothing; the pass takes
\* time. output is what was read so far: nothing, bytes without a match,
\* bytes that match.
sn_loop ==
    /\ pc = "sn_loop"
    /\ IF KeepReading(comp)
       THEN \E chunk \in {"", "data", "match"} : \E d \in 1..MaxPass :
              LET t == Min(comp.now + d, MaxClock)
                  out == IF chunk = "" THEN comp.output
                         ELSE IF comp.output = "match" \/ chunk = "match"
                         THEN "match" ELSE "data"
              IN
              IF chunk = ""
              THEN comp' = [comp EXCEPT !.now = t] /\ pc' = pc
              ELSE IF comp.pattern /\ out = "match"
              THEN /\ comp' = [comp EXCEPT !.now = t, !.output = out,
                                           !.stopped = "match"]
                   /\ pc' = "sn_strip"
              ELSE /\ comp' = [comp EXCEPT !.now = t, !.output = out,
                                           !.deadline = t + inp.size]
                   /\ pc' = pc
       ELSE /\ comp' = [comp EXCEPT !.stopped = "deadline"]
            /\ pc' = "sn_strip"
    /\ UNCHANGED <<tmo, sess, link, steps, inp, attempt, ser, maint, wi, ws,
                   pending, fl, em_ret, wi_ret, result, wire, calls>>

\* Lines 127-133: decode, strip the echo, return.
sn_strip ==
    /\ pc = "sn_strip"
    /\ pc' = "returned"
    /\ UNCHANGED <<aux, inp, attempt, ser, maint, wi, ws, pending, fl,
                   em_ret, wi_ret, result, wire, calls>>

\* Python's | and & on non-negative integers.
RECURSIVE BitOr(_, _)
BitOr(a, b) ==
    IF a = 0 THEN b
    ELSE IF b = 0 THEN a
    ELSE (IF a % 2 = 1 \/ b % 2 = 1 THEN 1 ELSE 0)
         + 2 * BitOr(a \div 2, b \div 2)
RECURSIVE BitAnd(_, _)
BitAnd(a, b) ==
    IF a = 0 \/ b = 0 THEN 0
    ELSE (IF a % 2 = 1 /\ b % 2 = 1 THEN 1 ELSE 0)
         + 2 * BitAnd(a \div 2, b \div 2)

\* Mutant: the sequence number is not masked.
next_seq_unmasked(seq) == seq + 1
\* ospi_rtt.py lines 71-73, _next_seq: the new value of _seq.
next_seq(seq) == BitAnd(seq + 1, SEQ_MASK)

NoResp ==
    [arrived |-> FALSE, resp_id |-> 0, status |-> 0, seq |-> 0,
     length |-> 0, payload_arrived |-> FALSE]
NoRet == [raised |-> FALSE, why |-> "-"]
\* What the firmware's side of RTT channel 0 can hold after a command:
\* nothing within RTT_TIMEOUT, or a header whose id, status and sequence
\* number are right or wrong, with or without the payload it announces.
OspiResponses(cmd_id, seq) ==
    {NoResp}
    \cup [arrived : {TRUE},
          resp_id : {BitOr(cmd_id, RESP_FLAG), cmd_id,
                     BitOr(CMD_READ_ID, RESP_FLAG), RESP_FLAG},
          status : {STATUS_OK, STATUS_TIMEOUT, STATUS_FLASH_ERR, 9},
          seq : {seq, BitAnd(seq + 1, SEQ_MASK), BitAnd(seq + SEQ_MASK, SEQ_MASK)},
          length : {0},
          payload_arrived : {FALSE}]
    \cup [arrived : {TRUE},
          resp_id : {BitOr(cmd_id, RESP_FLAG), cmd_id,
                     BitOr(CMD_READ_ID, RESP_FLAG), RESP_FLAG},
          status : {STATUS_OK, STATUS_TIMEOUT, STATUS_FLASH_ERR, 9},
          seq : {seq, BitAnd(seq + 1, SEQ_MASK), BitAnd(seq + SEQ_MASK, SEQ_MASK)},
          length : {2},
          payload_arrived : BOOLEAN]

\* Lines 100-153, _read_response: the payload is returned or
\* OspiProgrammerError is raised, the checks in the order of the code.
ospi_read_response(r, expected_cmd_id, expected_seq) ==
    IF ~r.arrived
    THEN [raised |-> TRUE, why |-> "Timeout waiting for response"]
    ELSE IF r.resp_id # BitOr(expected_cmd_id, RESP_FLAG)
    THEN [raised |-> TRUE, why |-> "Unexpected response ID"]
    ELSE IF r.seq # expected_seq
    THEN [raised |-> TRUE, why |-> "Sequence mismatch"]
    ELSE IF r.length > 0 /\ ~r.payload_arrived
    THEN [raised |-> TRUE, why |-> "Timeout reading response data"]
    ELSE IF r.status # STATUS_OK
    THEN [raised |-> TRUE, why |-> "failed"]
    ELSE [raised |-> FALSE, why |-> "payload"]

\* Lines 62-69: the programmer and its _seq; sent lists the sequence
\* numbers of the headers written in this run.
op_new ==
    /\ pc = "ospi"
    /\ comp' = [seq |-> inp.addr, sent |-> <<>>, cmd_id |-> 0,
                resp |-> NoResp, ret |-> NoRet]
    /\ pc' = "op_idle"
    /\ UNCHANGED <<tmo, sess, link, steps, inp, attempt, ser, maint, wi, ws,
                   pending, fl, em_ret, wi_ret, result, wire, calls>>

\* Lines 75-95, _send_cmd up to the read: the next sequence number is
\* taken and the header (and data) written to RTT channel 0.
op_send_cmd ==
    /\ pc = "op_idle"
    /\ Len(comp.sent) < MaxCommands
    /\ \E cmd_id \in {CMD_PING, CMD_ERASE} :
          comp' = [comp EXCEPT !.seq = next_seq(comp.seq),
                               !.sent = Append(comp.sent, next_seq(comp.seq)),
                               !.cmd_id = cmd_id,
                               !.resp = NoResp,
                               !.ret = NoRet]
    /\ pc' = "op_read"
    /\ UNCHANGED <<tmo, sess, link, steps, inp, attempt, ser, maint, wi, ws,
                   pending, fl, em_ret, wi_ret, result, wire, calls>>

\* Lines 97-98 and 100-153: the response to the command just sent is
\* read and judged; the caller goes on with the same programmer.
op_read_response ==
    /\ pc = "op_read"
    /\ \E r \in OspiResponses(comp.cmd_id, comp.seq) :
          comp' = [comp EXCEPT !.resp = r,
                               !.ret = ospi_read_response(r, comp.cmd_id, comp.seq)]
    /\ pc' = "op_idle"
    /\ UNCHANGED <<tmo, sess, link, steps, inp, attempt, ser, maint, wi, ws,
                   pending, fl, em_ret, wi_ret, result, wire, calls>>

PureNext ==
    \/ op_new \/ op_send_cmd \/ op_read_response
    \/ mp_call \/ rr_frame \/ rr_call \/ rr_read \/ rr_finally
    \/ pad_call \/ sg_step \/ cs_call \/ sc_write \/ sc_read
    \/ os_attempt \/ wc_read
    \/ wr_start \/ wr_disappear \/ wr_reappear
    \/ sb_call \/ sb_flush \/ sb_write \/ sb_arrive \/ sb_decode
    \/ sn_call \/ sn_loop \/ sn_strip

PureSpec == PureInit /\ [][PureNext]_vars

\* A call that can take a step takes it: the thread that runs it is
\* scheduled and time goes on.
FairPureSpec == PureSpec /\ WF_vars(PureNext)

\* ------------------------------------------------------------------------
\* uart-mcp: the life cycle of a SerialSession (serial_session.py)
\* ------------------------------------------------------------------------
\* How many method calls are made on the session.
MaxCalls == 5

\* The variables of the ISP client, which the session does not touch.
alif == <<inp, pc, attempt, ser, maint, wi, ws, pending, fl,
          em_ret, wi_ret, result, wire, calls, steps, comp>>

SessionInit ==
    /\ inp = PureCall("SerialSession", 0, <<>>, 0, 0)
    /\ pc = "session"
    /\ attempt = 0
    /\ ser = "none"
    /\ maint = NoEnquiry
    /\ wi = NoWi
    /\ ws = NoWs
    /\ pending = NoRes
    /\ fl = [images |-> <<>>, idx |-> 0, results |-> <<>>]
    /\ em_ret = NoRes
    /\ wi_ret = NoRes
    /\ result = NoRes
    /\ wire = <<>>
    /\ calls = <<>>
    /\ AuxIdle

\* Lines 60-62: the property is_open.
is_open(s) == s.ser # "None" /\ s.port_open

\* Mutant: open() does not look at the session's state.
already_open_unchecked(s) == FALSE
\* Line 43: self._ser and self._ser.is_open.
already_open(s) == s.ser # "None" /\ s.port_open

Called(s, op, outcome, constructed, touched) ==
    [s EXCEPT !.calls = s.calls + 1,
              !.last = [op |-> op, was_open |-> is_open(sess),
                        outcome |-> outcome, constructed |-> constructed,
                        touched |-> touched]]

\* Lines 42-53: open(). serial.Serial(...) opens the port or raises; the
\* input buffer of the new port is then flushed, which may raise too.
ss_open ==
    /\ sess.calls < MaxCalls
    /\ IF already_open(sess)
       THEN sess' = Called(sess, "open", "RuntimeError", 0, 0)
       ELSE \/ sess' = Called(sess, "open", "SerialException", 0, 0)
            \/ \E flushed \in BOOLEAN :
                 sess' = Called([sess EXCEPT !.ser = "Serial",
                                             !.port_open = TRUE,
                                             !.opened = sess.opened + 1],
                                "open",
                                IF flushed THEN "ok" ELSE "SerialException",
                                1, 1)
    /\ UNCHANGED <<alif, tmo, link>>

\* Lines 55-58: close(). The port's close() may raise, and then _ser keeps
\* the port, closed or not.
ss_close ==
    /\ sess.calls < MaxCalls
    /\ IF sess.ser # "None" /\ sess.port_open
       THEN \/ sess' = Called([sess EXCEPT !.ser = "None", !.port_open = FALSE],
                              "close", "ok", 0, 1)
            \/ \E still \in BOOLEAN :
                 sess' = Called([sess EXCEPT !.port_open = still],
                                "close", "SerialException", 0, 1)
       ELSE sess' = Called([sess EXCEPT !.ser = "None", !.port_open = FALSE],
                           "close", "ok", 0, 0)
    /\ UNCHANGED <<alif, tmo, link>>

\* Lines 64-68 and 70-133: write_raw, read_output and send_command start
\* with _ensure_open and then work on the port, which may raise.
ss_use ==
    /\ sess.calls < MaxCalls
    /\ \E op \in {"write_raw", "read_output", "send_command"} :
         IF ~is_open(sess)
         THEN sess' = Called(sess, op, "RuntimeError", 0, 0)
         ELSE \E outcome \in {"ok", "SerialException"} :
                sess' = Called(sess, op, outcome, 0, 1)
    /\ UNCHANGED <<alif, tmo, link>>

SessionNext == ss_open \/ ss_close \/ ss_use

SessionSpec == SessionInit /\ [][SessionNext]_vars

\* ------------------------------------------------------------------------
\* alif-flash server: two tool calls for the same port
\* (server.py _dispatch; isp.py open_serial, send_cmd)
\* ------------------------------------------------------------------------
\* How many exchanges each call makes, and how many events of the port are
\* remembered.
MaxExchanges == 2
LinkWindow == 4

LinkInit ==
    /\ inp = PureCall("dispatch", 0, <<>>, 0, 0)
    /\ pc = "server"
    /\ attempt = 0
    /\ ser = "none"
    /\ maint = NoEnquiry
    /\ wi = NoWi
    /\ ws = NoWs
    /\ pending = NoRes
    /\ fl = [images |-> <<>>, idx |-> 0, results |-> <<>>]
    /\ em_ret = NoRes
    /\ wi_ret = NoRes
    /\ result = NoRes
    /\ wire = <<>>
    /\ calls = <<>>
    /\ AuxIdle

PortEvent(l, t, ev) ==
    LET s == Append(l.port, [by |-> t, ev |-> ev])
    IN IF Len(s) > LinkWindow THEN Tail(s) ELSE s

\* The workers that hold the port open.
Holders(l) == {t \in Workers : l.thr[t].pc \in {"write", "read", "close"}}

\* server.py lines 290-292 and 312-325: the call is handed to a worker
\* thread with asyncio.to_thread; the event loop goes on to the next call.
\* Nothing is acquired before the thread starts.
ln_dispatch(t) ==
    /\ link.thr[t].pc = "idle"
    /\ link' = [link EXCEPT !.thr[t].pc = "open"]
    /\ UNCHANGED <<alif, tmo, sess>>

\* isp.py lines 185-204, open_serial: serial.Serial(port, BAUD_RATE,
\* timeout=2) asks for no exclusive access, so whether a port another
\* worker holds can be opened is the platform's choice. What the input
\* buffer holds is read away (lines 192-194).
ln_open(t) ==
    /\ link.thr[t].pc = "open"
    /\ \/ link' = [link EXCEPT !.thr[t].pc = "write",
                               !.thr[t].attempt = 0,
                               !.rx = <<>>,
                               !.port = PortEvent(link, t, "open")]
       \/ /\ Holders(link) # {}
          /\ IF link.thr[t].attempt < OPEN_RETRIES - 1
             THEN link' = [link EXCEPT !.thr[t].attempt = @ + 1]
             ELSE link' = [link EXCEPT !.thr[t].pc = "raised",
                                       !.thr[t].attempt = 0]
    /\ UNCHANGED <<alif, tmo, sess>>

\* isp.py lines 84-87, send_cmd: the input buffer is emptied and the frame
\* is written.
ln_write(t) ==
    /\ link.thr[t].pc = "write"
    /\ link' = [link EXCEPT !.thr[t].pc = "read",
                            !.rx = <<>>,
                            !.dev = Append(link.dev, t),
                            !.port = PortEvent(link, t, "write")]
    /\ UNCHANGED <<alif, tmo, sess>>

\* The device answers the oldest frame it was sent, or stays silent.
ln_device ==
    /\ link.dev # <<>>
    /\ \/ link' = [link EXCEPT !.dev = Tail(link.dev),
                               !.rx = Append(link.rx, Head(link.dev))]
       \/ link' = [link EXCEPT !.dev = Tail(link.dev)]
    /\ UNCHANGED <<alif, tmo, sess>>

\* isp.py lines 89-104, send_cmd: read_response takes what the input buffer
\* holds, or times out on an empty one; the call's next exchange follows,
\* or its close.
ln_read(t) ==
    /\ link.thr[t].pc = "read"
    /\ LET got == IF link.rx = <<>> THEN "none"
                  ELSE IF Head(link.rx) = t THEN "own" ELSE "other"
           rest == IF link.rx = <<>> THEN <<>> ELSE Tail(link.rx)
       IN link' = [link EXCEPT
                      !.thr[t].got = got,
                      !.thr[t].sent = @ + 1,
                      !.thr[t].pc = IF link.thr[t].sent + 1 < MaxExchanges
                                    THEN "write" ELSE "close",
                      !.rx = rest,
                      !.port = PortEvent(link, t, "read")]
    /\ UNCHANGED <<alif, tmo, sess>>

\* isp.py line 247 (probe) and lines 443-451 (write_image): ser.close().
ln_close(t) ==
    /\ link.thr[t].pc = "close"
    /\ link' = [link EXCEPT !.thr[t].pc = "done",
                            !.port = PortEvent(link, t, "close")]
    /\ UNCHANGED <<alif, tmo, sess>>

LinkNext ==
    \/ \E t \in Workers : ln_dispatch(t)
    \/ \E t \in Workers : ln_open(t)
    \/ \E t \in Workers : ln_write(t)
    \/ ln_device
    \/ \E t \in Workers : ln_read(t)
    \/ \E t \in Workers : ln_close(t)

LinkSpec == LinkInit /\ [][LinkNext]_vars

\* ------------------------------------------------------------------------
\* uart-mcp server: the session registry under overlapping tool calls
\* (uart-mcp server.py create_server, _dispatch, _get_session)
\* ------------------------------------------------------------------------
\* How many tool calls are made, and how many sessions open_port creates.
MaxTasks == 3
MaxSessions == 2

Tasks == 1..MaxTasks
SessionIds == 1..MaxSessions
SessionTools == {"open_port", "close_port", "send_command"}
NoTask == [tool |-> "none", id |-> 0, pc |-> "idle", raised |-> "", outcome |-> ""]

\* server.py line 141: sessions = {}. sessions is the set of the registry's
\* keys, is_open the property of each SerialSession object, created the
\* number of objects made.
RegistryInit ==
    /\ inp = PureCall("create_server", 0, <<>>, 0, 0)
    /\ pc = "server"
    /\ attempt = 0
    /\ ser = "none"
    /\ maint = NoEnquiry
    /\ wi = NoWi
    /\ ws = NoWs
    /\ pending = NoRes
    /\ fl = [images |-> <<>>, idx |-> 0, results |-> <<>>]
    /\ em_ret = NoRes
    /\ wi_ret = NoRes
    /\ result = NoRes
    /\ wire = <<>>
    /\ calls = <<>>
    /\ tmo = NoTimeout
    /\ sess = NewSession
    /\ link = NoLink
    /\ steps = <<>>
    /\ comp = [sessions |-> {},
               is_open |-> [id \in SessionIds |-> FALSE],
               created |-> 0,
               task |-> [t \in Tasks |-> NoTask]]

RegistryUnchanged ==
    UNCHANGED <<inp, pc, attempt, ser, maint, wi, ws, pending, fl, em_ret,
                wi_ret, result, wire, calls, tmo, sess, link, steps>>

\* server.py lines 234-245, _get_session: the id is a key of the registry.
Registered(c, id) == id \in c.sessions

\* server.py lines 167-176, 184-185, 192-198: a tool call runs up to its
\* await. open_port makes a SerialSession; the other tools look the session
\* up, which raises ValueError for an unknown id.
rg_call(t) ==
    /\ comp.task[t].pc = "idle"
    /\ \E tool \in SessionTools :
         IF tool = "open_port"
         THEN /\ comp.created < MaxSessions
              /\ comp' = [comp EXCEPT
                            !.created = @ + 1,
                            !.task[t] = [NoTask EXCEPT !.tool = tool,
                                                       !.id = comp.created + 1,
                                                       !.pc = "thread"]]
         ELSE \E id \in SessionIds :
                comp' = [comp EXCEPT
                           !.task[t] =
                              IF Registered(comp, id)
                              THEN [NoTask EXCEPT !.tool = tool, !.id = id,
                                                  !.pc = "thread"]
                              ELSE [NoTask EXCEPT !.tool = tool, !.id = id,
                                                  !.pc = "error",
                                                  !.outcome = "ValueError"]]
    /\ RegistryUnchanged

\* The worker thread of asyncio.to_thread runs the session's method:
\* serial_session.py lines 42-53 (open), 55-58 (close), 90-92 with 64-68
\* (send_command on a session that is not open raises RuntimeError).
rg_thread(t) ==
    /\ comp.task[t].pc = "thread"
    /\ LET id == comp.task[t].id
           tool == comp.task[t].tool
       IN
       CASE tool = "open_port" ->
              \/ comp' = [comp EXCEPT !.is_open[id] = TRUE,
                                      !.task[t].pc = "resume"]
              \/ comp' = [comp EXCEPT !.task[t].pc = "resume",
                                      !.task[t].raised = "SerialException"]
         [] tool = "close_port" ->
              comp' = [comp EXCEPT !.is_open[id] = FALSE,
                                   !.task[t].pc = "resume"]
         [] tool = "send_command" ->
              IF comp.is_open[id]
              THEN comp' = [comp EXCEPT !.task[t].pc = "resume"]
              ELSE comp' = [comp EXCEPT !.task[t].pc = "resume",
                                        !.task[t].raised = "RuntimeError"]
    /\ RegistryUnchanged

\* server.py lines 177-183, 186-191, 199-206: the call goes on after its
\* await. An exception of the thread is raised here; open_port stores the
\* session; close_port deletes the key, which raises KeyError when the key
\* is gone.
rg_resume(t) ==
    /\ comp.task[t].pc = "resume"
    /\ LET id == comp.task[t].id
           tool == comp.task[t].tool
       IN
       IF comp.task[t].raised # ""
       THEN comp' = [comp EXCEPT !.task[t].pc = "error",
                                 !.task[t].outcome = comp.task[t].raised]
       ELSE CASE tool = "open_port" ->
                   comp' = [comp EXCEPT !.sessions = @ \cup {id},
                                        !.task[t].pc = "done",
                                        !.task[t].outcome = "open"]
              [] tool = "close_port" ->
                   IF Registered(comp, id)
                   THEN comp' = [comp EXCEPT !.sessions = @ \ {id},
                                             !.task[t].pc = "done",
                                             !.task[t].outcome = "closed"]
                   ELSE comp' = [comp EXCEPT !.task[t].pc = "error",
                                             !.task[t].outcome = "KeyError"]
              [] tool = "send_command" ->
                   comp' = [comp EXCEPT !.task[t].pc = "done",
                                        !.task[t].outcome = "output"]
    /\ RegistryUnchanged

RegistryNext ==
    \/ \E t \in Tasks : rg_call(t)
    \/ \E t \in Tasks : rg_thread(t)
    \/ \E t \in Tasks : rg_resume(t)

RegistrySpec == RegistryInit /\ [][RegistryNext]_vars

\* ------------------------------------------------------------------------
\* Vocabulary of the properties
\* ------------------------------------------------------------------------
IsFrame(e, cmd) == e.ev = "frame" /\ e.cmd = cmd
\* write_image's finally clause at work: STOP_ISP, or the close after it.
IsCleanup(e) == IsFrame(e, CMD_STOP_ISP) \/ e.ev = "close"
LastEvent == wire[Len(wire)]
\* Segment k of the image write_image was called with (operation write_image).
FileSegAddr(k) == inp.file.addr + k * MAX_SEGMENT_SIZE
FileSegSize(k) ==
    Min(MAX_SEGMENT_SIZE,
        inp.file.size + Pad(inp.file.size) - k * MAX_SEGMENT_SIZE)

C2_WriteImageReturns == (inp.op = "write_image") => <>(pc = "done")

\* ------------------------------------------------------------------------
\* C3: an operation that returns a result with success=False has closed
\* every port it opened.
\* ------------------------------------------------------------------------
C3_FailureClosesPort ==
    (pc = "done" /\ result.kind = "returned" /\ ~result.success) => ser # "open"

\* ------------------------------------------------------------------------
\* C4 as claimed: in enter_maintenance a SET_MAINTENANCE or STOP_ISP that is
\* not acknowledged is terminal: no RESET_DEVICE is sent after it.
\* ------------------------------------------------------------------------
C4_Step2FailureIsTerminal ==
    (inp.op = "enter_maintenance") =>
       \A i \in 1..Len(wire) : \A j \in 1..Len(wire) :
          ( /\ i < j
            /\ (IsFrame(wire[i], CMD_SET_MAINTENANCE) \/ IsFrame(wire[i], CMD_STOP_ISP))
            /\ wire[i].r = "fail" )
          => ~IsFrame(wire[j], CMD_RESET_DEVICE)

\* ------------------------------------------------------------------------
\* C4 as amended: a START_ISP that fails on all attempts of step 1 ends
\* enter_maintenance with a failure and nothing more is sent; in step 2 the
\* responses to SET_MAINTENANCE and STOP_ISP are not looked at: STOP_ISP
\* follows SET_MAINTENANCE, RESET_DEVICE follows STOP_ISP, and the close and
\* the reopen follow RESET_DEVICE, unless a write fails and the exception
\* ends the operation.
\* ------------------------------------------------------------------------
C4_Step1TerminalStep2Unchecked ==
    (inp.op = "enter_maintenance") =>
       LET n == Len(wire)
           FailedStart(e) == IsFrame(e, CMD_START_ISP) /\ e.r = "fail"
       IN
       /\ ( /\ n >= 4
            /\ result.msg # "SE not responding after reset"
            /\ pending.msg # "SE not responding after reset"
            /\ wire[1] = EvOpen(NONE)
            /\ FailedStart(wire[2]) /\ FailedStart(wire[3]) /\ FailedStart(wire[4]) )
          => /\ n = 4
             /\ pc \in {"em_return", "done"}
             /\ pc = "done" => result = Fail("SE did not respond", "")
       /\ \A i \in 1..n :
            /\ (IsFrame(wire[i], CMD_SET_MAINTENANCE) /\ i + 1 <= n) =>
                  \/ IsFrame(wire[i + 1], CMD_STOP_ISP)
                  \/ wire[i + 1].ev = "close" /\ em_ret.kind = "raised"
            /\ ( /\ IsFrame(wire[i], CMD_STOP_ISP)
                 /\ i > 1
                 /\ IsFrame(wire[i - 1], CMD_SET_MAINTENANCE)
                 /\ i + 1 <= n ) =>
                  \/ wire[i + 1] = EvSent(CMD_RESET_DEVICE)
                  \/ wire[i + 1].ev = "close" /\ em_ret.kind = "raised"
            /\ (IsFrame(wire[i], CMD_RESET_DEVICE) /\ i + 1 <= n) =>
                  wire[i + 1] = EvClose(NONE)
            /\ (IsFrame(wire[i], CMD_RESET_DEVICE) /\ i + 2 <= n) =>
                  wire[i + 2] = EvOpen(NONE)

\* Neither SET_MAINTENANCE nor STOP_ISP was acknowledged; RESET_DEVICE was
\* sent all the same and the port was closed and reopened.
C4_Witness ==
    /\ inp.op = "enter_maintenance"
    /\ Len(wire) >= 5
    /\ \E i \in 1..(Len(wire) - 4) :
         /\ IsFrame(wire[i], CMD_SET_MAINTENANCE) /\ wire[i].r = "fail"
         /\ IsFrame(wire[i + 1], CMD_STOP_ISP) /\ wire[i + 1].r = "fail"
         /\ IsFrame(wire[i + 2], CMD_RESET_DEVICE)
         /\ wire[i + 3] = EvClose(NONE)
         /\ wire[i + 4] = EvOpen(NONE)

\* ------------------------------------------------------------------------
\* C5: enter_maintenance, write_image and flash_images end by returning a
\* result, never by an exception, when the port cannot be opened or a write
\* fails.
\* ------------------------------------------------------------------------
C5_NoExceptionForExpectedFailure ==
    (pc = "done" /\ inp.op \in {"enter_maintenance", "write_image", "flash_images"})
    => result.kind = "returned"

\* ------------------------------------------------------------------------
\* C6: when the firmware table names a binary that is not on disk,
\* flash_images never opens the port and writes no frame, whatever the flags.
\* ------------------------------------------------------------------------
C6_MissingBinaryBeforeDeviceIO ==
    (inp.op = "flash_images" /\ MissingBinary(inp.table)) => wire = <<>>

\* ------------------------------------------------------------------------
\* C7 as claimed: a failed chunk is taken for a USB drop exactly when no
\* byte at all was received, and for a protocol rejection otherwise.
\* ------------------------------------------------------------------------
C7_DropIffNoBytes ==
    (wire # <<>> /\ IsFrame(LastEvent, CMD_DOWNLOAD_DATA) /\ LastEvent.r # "ok") =>
       (pc = "wi_drop") = (LastEvent.r = "none")

\* ------------------------------------------------------------------------
\* C7 as amended: a failed chunk is taken for a USB drop (reconnect and
\* retry) exactly when read_response decoded no command: no byte, a length
\* byte below 2, a length byte with nothing after it, or a read error. It is
\* a protocol rejection (write_image returns the failure, no retry) exactly
\* when a command code other than ACK and DATA_RESP was decoded. After an
\* accepted chunk the transfer goes on, unless the next write fails.
\* ------------------------------------------------------------------------
C7_DropIffNothingDecoded ==
    (wire # <<>> /\ IsFrame(LastEvent, CMD_DOWNLOAD_DATA)) =>
       /\ LastEvent.r \in {"none", "junk"} <=> pc = "wi_drop"
       /\ LastEvent.r = "nak" <=>
            (pc = "wi_finally" /\ pending = Fail("Chunk failed", wi.name))
       /\ LastEvent.r = "ok" =>
            \/ pc \in {"ws_chunk", "ws_done"}
            \/ pc = "wi_finally" /\ pending = Raised

\* A chunk was answered with bytes that decode to no command, and
\* write_image is on the USB-drop path.
C7_Witness ==
    /\ wire # <<>>
    /\ IsFrame(LastEvent, CMD_DOWNLOAD_DATA)
    /\ LastEvent.r = "junk"
    /\ pc = "wi_drop"

\* ------------------------------------------------------------------------
\* C8: after a BURN_MRAM or a chunk that was answered with a code other than
\* ACK and DATA_RESP, write_image sends no BURN_MRAM and no DOWNLOAD_DATA
\* any more and does not reopen the port: only the STOP_ISP and the close of
\* its finally clause follow, and it returns a failure.
\* ------------------------------------------------------------------------
C8_RejectionNotRetried ==
    \A i \in 1..Len(wire) :
       ( /\ IsFrame(wire[i], CMD_BURN_MRAM) \/ IsFrame(wire[i], CMD_DOWNLOAD_DATA)
         /\ wire[i].r = "nak" )
       => /\ \A j \in (i + 1)..Len(wire) : IsCleanup(wire[j])
          /\ \/ /\ pc = "wi_finally"
                /\ pending.kind = "returned" /\ ~pending.success
                /\ i = Len(wire)
             \/ /\ pc \in {"fl_after_write", "done"}
                /\ wi_ret.kind = "returned" /\ ~wi_ret.success
                /\ wi_ret.file = wi.name

\* A chunk after the first was rejected; write_image sent STOP_ISP, closed
\* the port and returned the failure.
C8_Witness ==
    /\ inp.op = "write_image"
    /\ pc = "done"
    /\ ~result.success
    /\ Len(wire) >= 3
    /\ IsFrame(wire[Len(wire) - 2], CMD_DOWNLOAD_DATA)
    /\ wire[Len(wire) - 2].r = "nak"
    /\ wire[Len(wire) - 2].a > 0
    /\ IsFrame(wire[Len(wire) - 1], CMD_STOP_ISP)
    /\ wire[Len(wire)].ev = "close"

\* ------------------------------------------------------------------------
\* C9: once every image has been written, flash_images returns success
\* whatever happens in the final reset.
\* ------------------------------------------------------------------------
C9_FinalResetIsNoGate ==
    ( /\ inp.op = "flash_images"
      /\ pc = "done"
      /\ fl.images # <<>>
      /\ Len(fl.results) = Len(fl.images)
      /\ \A i \in 1..Len(fl.results) : fl.results[i].success )
    => (result.kind = "returned" /\ result.success)

\* ------------------------------------------------------------------------
\* C10: flash_images calls write_image once per image, the table-of-contents
\* package first and then the table's entries in their order; a failed image
\* is the last one written: flash_images is done, its result names that
\* file, and no RESET_DEVICE was sent.
\* ------------------------------------------------------------------------
C10_InOrderStopAtFirstFailure ==
    (inp.op = "flash_images") =>
       LET en == Enabled(inp.table.entries)
           off == IF inp.table.atoc THEN 1 ELSE 0
       IN
       /\ Len(calls) <= off + Len(en)
       /\ (inp.table.atoc /\ calls # <<>>) => calls[1] = "AppTocPackage.bin"
       /\ \A i \in 1..Len(calls) : i > off => calls[i] = en[i - off].binary
       /\ Len(fl.results) \in {Len(calls), Len(calls) - 1}
       /\ \A i \in 1..Len(fl.results) :
            ~fl.results[i].success =>
               /\ i = Len(fl.results)
               /\ i = Len(calls)
               /\ pc = "done"
               /\ result = Fail("Failed writing", calls[i])
               /\ \A j \in 1..Len(wire) : ~IsFrame(wire[j], CMD_RESET_DEVICE)

\* The package was written, the first entry failed, the second entry was
\* never written.
C10_Witness ==
    /\ inp.op = "flash_images"
    /\ pc = "done"
    /\ Len(Images(inp.table)) = 3
    /\ calls = <<"AppTocPackage.bin", "a.bin">>
    /\ Len(fl.results) = 2
    /\ fl.results[1].success
    /\ result = Fail("Failed writing", "a.bin")

\* ------------------------------------------------------------------------
\* C11: start_isp sends at most 3 START_ISP frames. It returns at the first
\* attempt that is acknowledged and sends no START_ISP after it; while it
\* runs, the failed attempts so far are counted by its loop variable; when
\* it has returned after a failed attempt without an exception, that
\* attempt was the third failure in a row. An attempt that is not answered
\* raises nothing: an exception only comes from a write that failed.
\* ------------------------------------------------------------------------
IspPcs == {"pr_isp", "em_isp1", "em_isp2", "wi_isp", "wi_reisp", "fl_reset_isp"}
FailedStart(e) == IsFrame(e, CMD_START_ISP) /\ e.r = "fail"
AckedStart(e) == IsFrame(e, CMD_START_ISP) /\ e.r = "ok"
\* The number of failed START_ISP attempts the wire window ends with.
TrailingFailedStarts ==
    LET n == Len(wire) IN
    CHOOSE k \in 0..n :
       /\ \A j \in (n - k + 1)..n : FailedStart(wire[j])
       /\ k = n \/ ~FailedStart(wire[n - k])
ExceptionUnderWay ==
    \/ pending = Raised
    \/ em_ret.kind = "raised"
    \/ wi_ret.kind = "raised"
    \/ result.kind = "raised"

C11_StartIspAtMostThree ==
    LET n == Len(wire) IN
    /\ pc \in IspPcs => (attempt \in 0..2 /\ TrailingFailedStarts = attempt)
    /\ \A i \in 1..n :
         /\ (AckedStart(wire[i]) /\ i + 1 <= n) =>
               ~IsFrame(wire[i + 1], CMD_START_ISP)
         /\ (AckedStart(wire[i]) /\ i = n) => pc \notin IspPcs
         /\ i + 3 <= n =>
               ~(\A j \in i..(i + 3) : IsFrame(wire[j], CMD_START_ISP))
         /\ ( /\ FailedStart(wire[i])
              /\ i + 1 <= n => ~IsFrame(wire[i + 1], CMD_START_ISP)
              /\ i = n => pc \notin IspPcs )
            => \/ /\ i >= 3
                  /\ FailedStart(wire[i - 1])
                  /\ FailedStart(wire[i - 2])
               \/ ExceptionUnderWay

\* The first START_ISP of probe was not answered, the second was
\* acknowledged, and start_isp has returned to probe.
C11_Witness ==
    /\ inp.op = "probe"
    /\ Len(wire) = 3
    /\ wire[1] = EvOpen(NONE)
    /\ FailedStart(wire[2])
    /\ AckedStart(wire[3])
    /\ pc = "pr_enquiry"
    /\ pending # Raised

\* ------------------------------------------------------------------------
\* C12: once the START_ISP after the reset is acknowledged, enter_maintenance
\* sends ENQUIRY and then ends with success=True whatever the enquiry gave;
\* maintenance_mode is True exactly when the enquiry was acknowledged,
\* carried at least 10 bytes and byte 9 is not zero, and otherwise it is
\* False and the result carries a message. (The one other way out is the
\* exception of a write that failed.)
\* ------------------------------------------------------------------------
FlagRead == maint.ok /\ Len(maint.data) >= 10 /\ maint.data[10] # 0

C12_UnconfirmedMaintenanceIsSuccess ==
    LET n == Len(wire)
        Verdict(res) ==
           \/ res = Raised
           \/ /\ res.kind = "returned"
              /\ res.success
              /\ res.maint = FlagRead
              /\ ~res.maint => res.msg # ""
    IN
    /\ pc = "em_stop2" =>
          /\ IsFrame(wire[n], CMD_ENQUIRY)
          /\ (wire[n].r = "ok") = maint.ok
    /\ (pc = "em_close" /\ n > 0 /\ IsFrame(wire[n], CMD_ENQUIRY)) =>
          Verdict(pending)
    /\ \A i \in 1..n :
         (IsFrame(wire[i], CMD_ENQUIRY) /\ em_ret.kind # "none") =>
            /\ Verdict(em_ret)
            /\ inp.op = "enter_maintenance" => result = em_ret

\* The enquiry was answered with 10 zero bytes and enter_maintenance
\* returned success with maintenance_mode False.
C12_Witness ==
    /\ inp.op = "enter_maintenance"
    /\ pc = "done"
    /\ maint = [ok |-> TRUE, data |-> EnquiryNoMaint]
    /\ \E i \in 1..Len(wire) : IsFrame(wire[i], CMD_ENQUIRY) /\ wire[i].r = "ok"
    /\ result.kind = "returned"
    /\ result.success
    /\ ~result.maint
    /\ result.msg # ""

\* ------------------------------------------------------------------------
\* C13: in one segment the DOWNLOAD_DATA frames carry the sequence numbers
\* 0, 1, 2, ... without gap or repeat: the first chunk after BURN_MRAM has
\* number 0, in every segment, and a chunk that follows a chunk has the
\* next number. Every chunk has between 1 and 240 data bytes, starts where
\* the chunk before it ended, is followed by another chunk only when it was
\* full, and the chunk DOWNLOAD_DONE follows ends where the segment ends.
\* ------------------------------------------------------------------------
C13_ChunkSequencePerSegment ==
    LET n == Len(wire) IN
    /\ pc = "ws_chunk" =>
          /\ ws.offset = DATA_PER_CHUNK * ws.chunk_num
          /\ ws.offset < ws.size
    /\ pc = "ws_done" => ws.offset = ws.size
    /\ \A i \in 1..n :
         IsFrame(wire[i], CMD_DOWNLOAD_DATA) =>
           /\ wire[i].b >= 1 /\ wire[i].b <= DATA_PER_CHUNK
           /\ i > 1 =>
                \/ /\ IsFrame(wire[i - 1], CMD_BURN_MRAM)
                   /\ wire[i - 1].r = "ok"
                   /\ wire[i - 1].seg = wire[i].seg
                   /\ wire[i].a = 0
                \/ /\ IsFrame(wire[i - 1], CMD_DOWNLOAD_DATA)
                   /\ wire[i - 1].r = "ok"
                   /\ wire[i - 1].seg = wire[i].seg
                   /\ wire[i - 1].b = DATA_PER_CHUNK
                   /\ wire[i].a = wire[i - 1].a + 1
           /\ inp.op = "write_image" =>
                /\ DATA_PER_CHUNK * wire[i].a < FileSegSize(wire[i].seg)
                /\ wire[i].b = Min(DATA_PER_CHUNK,
                                   FileSegSize(wire[i].seg)
                                      - DATA_PER_CHUNK * wire[i].a)
           /\ (i = n /\ wire[i].r = "ok" /\ pc \in {"ws_chunk", "ws_done"}) =>
                /\ ws.chunk_num = wire[i].a + 1
                /\ ws.offset = DATA_PER_CHUNK * wire[i].a + wire[i].b
           /\ (i + 1 <= n /\ IsFrame(wire[i + 1], CMD_DOWNLOAD_DONE)) =>
                /\ wire[i].r = "ok"
                /\ wire[i + 1].seg = wire[i].seg
                /\ inp.op = "write_image" =>
                     DATA_PER_CHUNK * wire[i].a + wire[i].b
                        = FileSegSize(wire[i].seg)
    /\ \A i \in 2..n :
         IsFrame(wire[i], CMD_DOWNLOAD_DONE) =>
            IsFrame(wire[i - 1], CMD_DOWNLOAD_DATA)

\* Segment 0 of a two-segment image ended with a short chunk far beyond
\* number 255, and segment 1 started again at chunk 0, followed by chunk 1.
C13_Witness ==
    /\ inp.op = "write_image"
    /\ Len(wire) = 6
    /\ IsFrame(wire[1], CMD_DOWNLOAD_DATA) /\ wire[1].seg = 0
    /\ wire[1].a > 1000 /\ wire[1].b = DATA_PER_CHUNK
    /\ IsFrame(wire[2], CMD_DOWNLOAD_DATA) /\ wire[2].seg = 0
    /\ wire[2].a = wire[1].a + 1 /\ wire[2].b < DATA_PER_CHUNK
    /\ IsFrame(wire[3], CMD_DOWNLOAD_DONE)
    /\ IsFrame(wire[4], CMD_BURN_MRAM) /\ wire[4].seg = 1
    /\ IsFrame(wire[5], CMD_DOWNLOAD_DATA) /\ wire[5].a = 0 /\ wire[5].seg = 1
    /\ IsFrame(wire[6], CMD_DOWNLOAD_DATA) /\ wire[6].a = 1 /\ wire[6].seg = 1

\* ------------------------------------------------------------------------
\* C14: an image of N bytes is written as ceil(N / 262144) segments. Segment
\* k is the bytes [262144 k, 262144 (k + 1)) of the padded image, cut at its
\* end, so no segment is longer than 262144 bytes, and it is burnt at the
\* image address plus 262144 k. Segments are written in ascending order: a
\* later BURN_MRAM is never for an earlier segment and never for a segment
\* whose DOWNLOAD_DONE was sent. write_image is past segment k exactly when
\* all bytes before 262144 (k + 1) are written, and it returns success when
\* the last byte of the last segment is.
\* ------------------------------------------------------------------------
MaxSegments == 8
CeilDiv(n, d) == CHOOSE k \in 0..MaxSegments : k * d >= n /\ (k - 1) * d < n

C14_SegmentPartition ==
    LET n == Len(wire)
        InWriteImage ==
           pc \in {"wi_open", "wi_isp", "wi_loop", "ws_burn", "ws_chunk",
                   "ws_done", "wi_drop", "wi_reopen", "wi_reisp", "wi_finally"}
    IN
    /\ InWriteImage =>
          /\ wi.seg_offset = Min(wi.seg_num * MAX_SEGMENT_SIZE, wi.size)
          /\ wi.seg_num <= CeilDiv(wi.orig, MAX_SEGMENT_SIZE)
          /\ (wi.seg_offset = wi.size) =
                (wi.seg_num = CeilDiv(wi.orig, MAX_SEGMENT_SIZE))
          /\ pc \in {"ws_burn", "ws_chunk", "ws_done"} =>
                /\ ws.addr = wi.addr + wi.seg_num * MAX_SEGMENT_SIZE
                /\ ws.size >= 1 /\ ws.size <= MAX_SEGMENT_SIZE
                /\ wi.seg_offset + ws.size =
                      Min((wi.seg_num + 1) * MAX_SEGMENT_SIZE, wi.size)
          /\ (pc = "wi_finally" /\ pending.kind = "returned" /\ pending.success) =>
                /\ wi.seg_offset = wi.size
                /\ pending.segments = CeilDiv(wi.orig, MAX_SEGMENT_SIZE)
    /\ inp.op = "write_image" =>
          /\ \A i \in 1..n :
               IsFrame(wire[i], CMD_BURN_MRAM) =>
                  /\ wire[i].seg < CeilDiv(inp.file.size, MAX_SEGMENT_SIZE)
                  /\ wire[i].a = inp.file.addr + wire[i].seg * MAX_SEGMENT_SIZE
                  /\ wire[i].b >= 1 /\ wire[i].b <= MAX_SEGMENT_SIZE
                  /\ wire[i].seg * MAX_SEGMENT_SIZE + wire[i].b =
                        Min((wire[i].seg + 1) * MAX_SEGMENT_SIZE,
                            inp.file.size + Pad(inp.file.size))
          /\ (pc = "done" /\ result.kind = "returned" /\ result.success) =>
                /\ result.segments = CeilDiv(inp.file.size, MAX_SEGMENT_SIZE)
                /\ wi.seg_num = result.segments
                /\ wi.seg_offset = inp.file.size + Pad(inp.file.size)
    /\ inp.op = "write_image" =>
          \A i \in 1..n : \A j \in 1..n :
             i < j =>
                /\ wire[i].seg <= wire[j].seg
                /\ (IsFrame(wire[i], CMD_DOWNLOAD_DONE)
                       /\ IsFrame(wire[j], CMD_BURN_MRAM)) =>
                      wire[j].seg > wire[i].seg

\* A two-segment image was written to its end: the last frames are the
\* final chunk and DOWNLOAD_DONE of segment 1, then STOP_ISP and the close.
C14_Witness ==
    /\ inp.op = "write_image"
    /\ inp.file.size > MAX_SEGMENT_SIZE
    /\ pc = "done"
    /\ result.success
    /\ result.segments = 2
    /\ Len(wire) = 6
    /\ IsFrame(wire[3], CMD_DOWNLOAD_DATA) /\ wire[3].seg = 1
    /\ IsFrame(wire[4], CMD_DOWNLOAD_DONE) /\ wire[4].seg = 1
    /\ IsFrame(wire[5], CMD_STOP_ISP)
    /\ wire[6].ev = "close"

\* ------------------------------------------------------------------------
\* C15: every segment is announced by a BURN_MRAM frame of its own whose 8
\* payload bytes are the segment's address and the segment's size, each as
\* 4 bytes, low byte first; the address is the image address plus the
\* segment's offset in the padded image. A 300 KiB image at 0x80300000 gives
\* two frames, (0x80300000, 262144) and (0x80340000, 45056).
\* ------------------------------------------------------------------------
C15_BurnFramePerSegment ==
    (inp.op = "segments") =>
       LET padded == inp.size + Pad(inp.size) IN
       /\ Len(result) = wi.seg_num
       /\ pc = "written" => Len(result) = CeilDiv(inp.size, MAX_SEGMENT_SIZE)
       /\ \A k \in 1..Len(result) :
            LET f == result[k] IN
            /\ Len(f) = 11
            /\ f[2] = CMD_BURN_MRAM
            /\ \A i \in 1..11 : f[i] \in 0..255
            \* the address, less 0x80000000
            /\ f[6] >= 128
            /\ f[3] + 256 * f[4] + 65536 * f[5] + 16777216 * (f[6] - 128)
                  = inp.addr + (k - 1) * MAX_SEGMENT_SIZE
            /\ f[7] + 256 * f[8] + 65536 * f[9] + 16777216 * f[10]
                  = Min(MAX_SEGMENT_SIZE, padded - (k - 1) * MAX_SEGMENT_SIZE)

\* The 300 KiB image at 0x80300000: two frames, the second one for
\* 0x80340000 (00 00 34 80) and 45056 bytes (00 B0 00 00).
C15_Witness ==
    /\ inp.op = "segments"
    /\ inp.addr = 3145728
    /\ inp.size = 307200
    /\ pc = "written"
    /\ Len(result) = 2
    /\ SubSeq(result[1], 1, 10) = <<11, 8, 0, 0, 48, 128, 0, 0, 4, 0>>
    /\ SubSeq(result[2], 1, 10) = <<11, 8, 0, 0, 52, 128, 0, 176, 0, 0>>

\* ------------------------------------------------------------------------
\* C16: write_image pads a file of L bytes to the smallest multiple of 16
\* that is at least L: the first L bytes are the file's, every byte after
\* them is zero, and nothing is added when L is a multiple of 16.
\* ------------------------------------------------------------------------
C16_PaddingToSixteen ==
    (inp.op = "pad" /\ pc = "padded") =>
       LET L == Len(inp.data) IN
       /\ Len(result) % 16 = 0
       /\ Len(result) >= L
       /\ Len(result) < L + 16
       /\ \A i \in 1..L : result[i] = inp.data[i]
       /\ \A i \in (L + 1)..Len(result) : result[i] = 0

\* A file of 17 bytes was padded with 15 zero bytes.
C16_Witness ==
    /\ inp.op = "pad"
    /\ pc = "padded"
    /\ Len(inp.data) = 17
    /\ Len(result) = 32
    /\ result[17] # 0
    /\ result[18] = 0

\* ------------------------------------------------------------------------
\* C17: the bytes of a frame built by make_packet sum to 0 modulo 256; the
\* byte after the length byte is the command id, the payload follows it
\* unchanged, and the checksum is the last byte.
\* ------------------------------------------------------------------------
C17_FrameInvariant ==
    (inp.op = "make_packet" /\ pc = "framed") =>
       LET n == Len(result) IN
       /\ \A i \in 1..n : result[i] \in 0..255
       /\ SumBytes(result) % 256 = 0
       /\ result[2] = inp.cmd
       /\ n = Len(inp.data) + 3
       /\ \A i \in 1..Len(inp.data) : result[2 + i] = inp.data[i]
       /\ (result[n] + SumBytes(SubSeq(result, 1, n - 1))) % 256 = 0

\* A frame whose bytes sum to more than 512.
C17_Witness ==
    /\ inp.op = "make_packet"
    /\ pc = "framed"
    /\ inp.cmd = 255
    /\ inp.data = <<255, 255, 255>>
    /\ SumBytes(result) > 512

\* ------------------------------------------------------------------------
\* C18 as claimed: the length byte of a frame is 2 plus the length of the
\* payload, the number of bytes that follow the length byte.
\* ------------------------------------------------------------------------
C18_LengthIsPayloadPlusTwo ==
    (inp.op = "make_packet" /\ pc = "framed") =>
       /\ result[1] = 2 + Len(inp.data)
       /\ result[1] = Len(result) - 1

\* ------------------------------------------------------------------------
\* C18 as amended: the length byte of a frame is 3 plus the length of the
\* payload: it counts every byte of the frame, the length byte itself, the
\* command id and the checksum included.
\* ------------------------------------------------------------------------
C18_LengthCountsWholeFrame ==
    (inp.op = "make_packet" /\ pc = "framed") =>
       /\ result[1] = 3 + Len(inp.data)
       /\ result[1] = Len(result)

\* START_ISP without payload is the frame 03 00 FD.
C18_Witness ==
    /\ inp.op = "make_packet"
    /\ pc = "framed"
    /\ inp.cmd = CMD_START_ISP
    /\ inp.data = <<>>
    /\ result = <<3, 0, 253>>

\* ------------------------------------------------------------------------
\* C19: read_response, given a stream that holds exactly the frame
\* make_packet built from a command id and a payload, returns that command
\* id and that payload: for the empty payload, for payloads of one byte and
\* for payloads of 250 bytes.
\* ------------------------------------------------------------------------
C19_CodecRoundTrip ==
    (inp.op = "make_packet" /\ pc = "decoded") =>
       /\ result.cmd = inp.cmd
       /\ result.data = inp.data

\* The round trip of a payload of one byte.
C19_Witness ==
    /\ inp.op = "make_packet"
    /\ pc = "decoded"
    /\ inp.cmd = CMD_DATA_RESP
    /\ inp.data = <<255>>
    /\ result = [cmd |-> CMD_DATA_RESP, data |-> <<255>>]

\* ------------------------------------------------------------------------
\* C20: a stream that starts with a length byte of 2 or more and ends
\* before the frame that byte declares is complete decodes to nothing:
\* read_response returns (None, b'').
\* ------------------------------------------------------------------------
C20_TruncatedDecodesToNothing ==
    ( /\ inp.op = "read_response"
      /\ pc = "decoded"
      /\ inp.data # <<>>
      /\ inp.data[1] >= 2
      /\ Len(inp.data) < inp.data[1] )
    => result = NoResponse

C22_ChecksumCancelsSum ==
    (inp.op = "calc_checksum" /\ pc = "summed") =>
       /\ result \in 0..255
       /\ (SumBytes(inp.data) + result) % 256 = 0
       /\ inp.data = <<>> => result = 0

\* The checksum of the 256 bytes 00..FF, whose sum is 32640, is 128.
C22_Witness ==
    /\ inp.op = "calc_checksum"
    /\ pc = "summed"
    /\ Len(inp.data) = 256
    /\ inp.data[256] = 255
    /\ SumBytes(inp.data) = 32640
    /\ result = 128

\* ------------------------------------------------------------------------
\* C23: one call of send_cmd writes one frame, the frame of its command and
\* payload, and reads one response; it returns ok=True exactly when the
\* response is a well-formed frame (as long as its length byte says, its
\* bytes summing to 0 modulo 256) whose command id is ACK or DATA_RESP; no
\* response, another code and a malformed frame give ok=False.
\* ------------------------------------------------------------------------
WellFormed(f) ==
    /\ Len(f) >= 3
    /\ f[1] = Len(f)
    /\ SumBytes(f) % 256 = 0

C23_OneShotAckOnly ==
    (inp.op = "send_cmd" /\ pc = "returned") =>
       /\ Len(wire) = 2
       /\ wire[1] = [dir |-> "tx", bytes |-> make_packet(inp.cmd, inp.data)]
       /\ wire[2].dir = "rx"
       /\ result.ok = (WellFormed(wire[2].bytes)
                          /\ wire[2].bytes[2] \in {CMD_ACK, CMD_DATA_RESP})

\* ------------------------------------------------------------------------
\* C24: open() on an open session raises RuntimeError, constructs no port
\* and leaves the session open; write_raw, read_output and send_command on
\* a session that is not open, never opened or closed, raise RuntimeError
\* and make no call on a port; close() on a session that is not open
\* returns without a call on a port and the session stays not open; after a
\* close() that returned, is_open is False.
\* ------------------------------------------------------------------------
C24_SessionLifecycle ==
    LET c == sess.last IN
    /\ (c.op = "open" /\ c.was_open) =>
          /\ c.outcome = "RuntimeError"
          /\ c.constructed = 0 /\ c.touched = 0
          /\ is_open(sess)
    /\ (c.op = "open" /\ c.outcome = "ok") => (is_open(sess) /\ ~c.was_open)
    /\ (c.op \in {"write_raw", "read_output", "send_command"} /\ ~c.was_open) =>
          /\ c.outcome = "RuntimeError"
          /\ c.touched = 0
          /\ ~is_open(sess)
    /\ (c.op \in {"write_raw", "read_output", "send_command"} /\ c.was_open) =>
          c.outcome # "RuntimeError"
    /\ (c.op = "close" /\ ~c.was_open) =>
          /\ c.outcome = "ok"
          /\ c.touched = 0
    /\ (c.op = "close" /\ c.outcome = "ok") => ~is_open(sess)

\* The session was opened and closed, and a write on it raised RuntimeError.
C24_Witness ==
    /\ sess.opened = 1
    /\ sess.ser = "None"
    /\ sess.last.op = "write_raw"
    /\ sess.last.outcome = "RuntimeError"
    /\ sess.last.touched = 0

\* ------------------------------------------------------------------------
\* C25: inside a segment a frame is written only after the response to the
\* frame before it was read and accepted: a DOWNLOAD_DATA frame directly
\* follows an accepted BURN_MRAM or an accepted DOWNLOAD_DATA of the same
\* segment; after a BURN_MRAM or a DOWNLOAD_DATA that was not accepted, no
\* frame of the transfer follows on that connection; DOWNLOAD_DONE directly
\* follows the accepted last chunk; and the BURN_MRAM of a segment after the
\* first directly follows the DOWNLOAD_DONE of the segment before it, or the
\* START_ISP of a reconnect made while that segment was being written.
\* ------------------------------------------------------------------------
C25_RequestThenResponse ==
    LET n == Len(wire)
        Transfer(e) ==
           \/ IsFrame(e, CMD_BURN_MRAM)
           \/ IsFrame(e, CMD_DOWNLOAD_DATA)
           \/ IsFrame(e, CMD_DOWNLOAD_DONE)
    IN
    \A i \in 1..(n - 1) :
       /\ Transfer(wire[i]) => wire[i].r \in {"ok", "nak", "none", "junk", "fail"}
       /\ IsFrame(wire[i + 1], CMD_DOWNLOAD_DATA) =>
             /\ IsFrame(wire[i], CMD_BURN_MRAM) \/ IsFrame(wire[i], CMD_DOWNLOAD_DATA)
             /\ wire[i].r = "ok"
             /\ wire[i].seg = wire[i + 1].seg
       /\ ( /\ IsFrame(wire[i], CMD_BURN_MRAM) \/ IsFrame(wire[i], CMD_DOWNLOAD_DATA)
            /\ wire[i].r # "ok" ) =>
             /\ ~Transfer(wire[i + 1])
             /\ IsCleanup(wire[i + 1])
       /\ IsFrame(wire[i + 1], CMD_DOWNLOAD_DONE) =>
             /\ IsFrame(wire[i], CMD_DOWNLOAD_DATA)
             /\ wire[i].r = "ok"
             /\ wire[i].seg = wire[i + 1].seg
       /\ (IsFrame(wire[i + 1], CMD_BURN_MRAM) /\ wire[i + 1].seg > 0) =>
             \/ /\ IsFrame(wire[i], CMD_DOWNLOAD_DONE)
                /\ wire[i].seg = wire[i + 1].seg - 1
             \/ /\ AckedStart(wire[i])
                /\ wire[i].seg = wire[i + 1].seg

\* Segment 0 ended with an accepted chunk and DOWNLOAD_DONE; BURN_MRAM of
\* segment 1 was accepted and its first chunk is about to be written.
C25_Witness ==
    /\ inp.op = "write_image"
    /\ Len(wire) = 6
    /\ IsFrame(wire[4], CMD_DOWNLOAD_DATA) /\ wire[4].r = "ok" /\ wire[4].seg = 0
    /\ IsFrame(wire[5], CMD_DOWNLOAD_DONE) /\ wire[5].seg = 0
    /\ IsFrame(wire[6], CMD_BURN_MRAM) /\ wire[6].r = "ok" /\ wire[6].seg = 1
    /\ pc = "ws_chunk"
    /\ ws.chunk_num = 0

\* ------------------------------------------------------------------------
\* C26: on one serial link at most one command/response exchange is in
\* flight at any instant, also when two tool calls for the same port are at
\* work in their worker threads: no worker writes a frame while another
\* worker's frame waits for its response, and no worker reads the response
\* to another worker's frame.
\* ------------------------------------------------------------------------
InFlight == {t \in Workers : link.thr[t].pc = "read"}

C26_OneExchangeInFlight ==
    /\ Cardinality(InFlight) <= 1
    /\ \A t \in Workers : link.thr[t].got # "other"
    /\ \A i \in 1..(Len(link.port) - 1) :
          link.port[i].ev = "write" =>
             (link.port[i + 1].ev = "read" /\ link.port[i + 1].by = link.port[i].by)

\* ------------------------------------------------------------------------
\* C27: DOWNLOAD_DONE is written once per streamed segment, directly after
\* the accepted last chunk of that segment, and the segment counter moves
\* on with it; it is never written for a segment attempt that ended with a
\* rejected BURN_MRAM, a rejected chunk or a USB drop: a DOWNLOAD_DONE that
\* comes after such a frame belongs to a later attempt, begun with an
\* acknowledged START_ISP.
\* ------------------------------------------------------------------------
AbortedAt(e) ==
    /\ IsFrame(e, CMD_BURN_MRAM) \/ IsFrame(e, CMD_DOWNLOAD_DATA)
    /\ e.r # "ok"

C27_DoneOncePerStreamedSegment ==
    LET n == Len(wire) IN
    /\ \A i \in 1..n :
         IsFrame(wire[i], CMD_DOWNLOAD_DONE) =>
            /\ i > 1 =>
                 /\ IsFrame(wire[i - 1], CMD_DOWNLOAD_DATA)
                 /\ wire[i - 1].r = "ok"
                 /\ wire[i - 1].seg = wire[i].seg
            /\ i < n =>
                 /\ ~IsFrame(wire[i + 1], CMD_DOWNLOAD_DONE)
                 /\ ~IsFrame(wire[i + 1], CMD_DOWNLOAD_DATA)
    /\ (n >= 1 /\ pc = "wi_loop" /\ IsFrame(wire[n], CMD_DOWNLOAD_DONE)) =>
          /\ wi.seg_num = wire[n].seg + 1
          /\ ws.offset = ws.size
          /\ ws.chunk_num = TotalChunks(ws.size)
          /\ n > 1 => wire[n - 1].a = SeqOnWire(TotalChunks(ws.size) - 1)
    /\ \A i \in 1..n : \A j \in (i + 1)..n :
         (AbortedAt(wire[i]) /\ IsFrame(wire[j], CMD_DOWNLOAD_DONE)) =>
            \E k \in (i + 1)..(j - 1) : AckedStart(wire[k])
    /\ inp.op = "write_image" =>
         \A i \in 1..n : \A j \in (i + 1)..n :
            /\ ( /\ IsFrame(wire[i], CMD_DOWNLOAD_DONE)
                 /\ IsFrame(wire[j], CMD_DOWNLOAD_DONE) ) =>
                  wire[i].seg < wire[j].seg
            /\ ( /\ AbortedAt(wire[i])
                 /\ IsFrame(wire[j], CMD_DOWNLOAD_DONE) ) =>
                  /\ IsFrame(wire[i], CMD_DOWNLOAD_DATA)
                  /\ wire[i].r \in {"none", "junk", "fail"}
                  /\ wire[j].seg >= wire[i].seg

\* After a USB drop in segment 1 the port was reopened, START_ISP was
\* acknowledged, and the retried segment was streamed and ended with
\* DOWNLOAD_DONE.
C27_Witness ==
    /\ inp.op = "write_image"
    /\ Len(wire) = 6
    /\ wire[1] = EvOpen(1)
    /\ AckedStart(wire[2])
    /\ IsFrame(wire[3], CMD_BURN_MRAM)
    /\ IsFrame(wire[6], CMD_DOWNLOAD_DONE)
    /\ wire[6].seg = 1
    /\ wi.seg_num = 2
    /\ pc = "wi_loop"

\* ------------------------------------------------------------------------
\* C28: when START_ISP is not acknowledged on the port reopened after a USB
\* drop, write_image returns success=False ("Failed to reconnect after USB
\* drop"): after the last failed START_ISP only the cleanup (STOP_ISP,
\* close) follows, no BURN_MRAM, no DOWNLOAD_DATA and no further open; and
\* no failed START_ISP is ever directly followed by a frame of the
\* transfer or by an open of the port.
\* ------------------------------------------------------------------------
ReconnectFailed(r) == r.msg = "Failed to reconnect after USB drop"

C28_ReconnectFailureIsFinal ==
    LET n == Len(wire) IN
    /\ \A i \in 1..(n - 1) :
         FailedStart(wire[i]) =>
            /\ ~IsFrame(wire[i + 1], CMD_BURN_MRAM)
            /\ ~IsFrame(wire[i + 1], CMD_DOWNLOAD_DATA)
            /\ ~IsFrame(wire[i + 1], CMD_DOWNLOAD_DONE)
            /\ wire[i + 1].ev # "open"
    /\ (pc = "wi_finally" /\ ReconnectFailed(pending)) =>
          /\ pending.kind = "returned"
          /\ ~pending.success
          /\ n >= START_ISP_RETRIES
          /\ \A j \in (n - START_ISP_RETRIES + 1)..n :
                FailedStart(wire[j]) /\ wire[j].seg = wi.seg_num
    /\ ReconnectFailed(wi_ret) =>
          /\ wi_ret.kind = "returned"
          /\ ~wi_ret.success
          /\ ser = "closed"
    /\ (inp.op = "write_image" /\ ReconnectFailed(result)) =>
          /\ pc = "done"
          /\ result.kind = "returned"
          /\ ~result.success
          /\ \E k \in START_ISP_RETRIES..(n - 1) :
                /\ \A j \in (k - START_ISP_RETRIES + 1)..k : FailedStart(wire[j])
                /\ \A j \in (k + 1)..n : IsCleanup(wire[j])
                /\ wire[n].ev = "close"

\* write_image has returned the reconnect failure.
C28_Witness ==
    /\ inp.op = "write_image"
    /\ pc = "done"
    /\ ReconnectFailed(result)
    /\ \E k \in 1..Len(wire) : FailedStart(wire[k])

\* ------------------------------------------------------------------------
\* C29: enter_maintenance puts its frames on the wire in one order. Each
\* step is taken with the step before it as the latest event: SET_MAINTENANCE
\* after the acknowledged START_ISP, STOP_ISP after SET_MAINTENANCE,
\* RESET_DEVICE (no response read) after STOP_ISP, then the close, then the
\* reopen, START_ISP until acknowledged, ENQUIRY, STOP_ISP and the final
\* close; a successful run ends with just these. The port is closed from
\* RESET_DEVICE until the reopen.
\* ------------------------------------------------------------------------
\* The window ends with k failed START_ISP attempts made after event e.
StartsSince(e, k) ==
    LET n == Len(wire) IN
    /\ n >= k + 1
    /\ \A j \in (n - k + 1)..n : FailedStart(wire[j])
    /\ wire[n - k] = e

C29_MaintenanceFrameOrder ==
    LET n == Len(wire) IN
    /\ pc = "em_isp1" =>
          \E k \in 0..(START_ISP_RETRIES - 1) : StartsSince(EvOpen(NONE), k)
    /\ pc = "em_setmaint" => (n >= 1 /\ AckedStart(wire[n]))
    /\ pc = "em_stop1" =>
          /\ n >= 2
          /\ IsFrame(wire[n], CMD_SET_MAINTENANCE)
          /\ AckedStart(wire[n - 1])
    /\ pc = "em_reset" =>
          /\ n >= 3
          /\ IsFrame(wire[n], CMD_STOP_ISP)
          /\ IsFrame(wire[n - 1], CMD_SET_MAINTENANCE)
          /\ AckedStart(wire[n - 2])
          /\ ser = "open"
    /\ pc = "em_open2" =>
          /\ n >= 4
          /\ wire[n] = EvClose(NONE)
          /\ wire[n - 1] = EvSent(CMD_RESET_DEVICE)
          /\ wire[n - 1].r = "-"
          /\ IsFrame(wire[n - 2], CMD_STOP_ISP)
          /\ IsFrame(wire[n - 3], CMD_SET_MAINTENANCE)
          /\ ser = "closed"
    /\ pc = "em_isp2" =>
          /\ ser = "open"
          /\ \E k \in 0..(START_ISP_RETRIES - 1) :
                /\ StartsSince(EvOpen(NONE), k)
                /\ n >= k + 3
                /\ wire[n - k - 1] = EvClose(NONE)
                /\ wire[n - k - 2] = EvSent(CMD_RESET_DEVICE)
    /\ pc = "em_enquiry" =>
          /\ n >= 2
          /\ AckedStart(wire[n])
          /\ \E k \in 0..(START_ISP_RETRIES - 1) :
                /\ n >= k + 3
                /\ \A j \in (n - k)..(n - 1) : FailedStart(wire[j])
                /\ wire[n - k - 1] = EvOpen(NONE)
                /\ wire[n - k - 2] = EvClose(NONE)
    /\ pc = "em_stop2" =>
          /\ n >= 2
          /\ IsFrame(wire[n], CMD_ENQUIRY)
          /\ AckedStart(wire[n - 1])
    /\ (pc = "em_close" /\ pending.kind = "returned" /\ pending.success) =>
          /\ n >= 3
          /\ IsFrame(wire[n], CMD_STOP_ISP)
          /\ IsFrame(wire[n - 1], CMD_ENQUIRY)
          /\ AckedStart(wire[n - 2])
    /\ ( /\ inp.op = "enter_maintenance"
         /\ pc = "done"
         /\ result.kind = "returned"
         /\ result.success ) =>
          /\ n >= 4
          /\ wire[n] = EvClose(NONE)
          /\ IsFrame(wire[n - 1], CMD_STOP_ISP)
          /\ IsFrame(wire[n - 2], CMD_ENQUIRY)
          /\ AckedStart(wire[n - 3])
          /\ ser = "closed"

\* A successful run whose second START_ISP was acknowledged at once: the
\* window holds the close after RESET_DEVICE, the reopen, START_ISP,
\* ENQUIRY, STOP_ISP and the final close.
C29_Witness ==
    /\ inp.op = "enter_maintenance"
    /\ pc = "done"
    /\ result.kind = "returned"
    /\ result.success
    /\ Len(wire) = 6
    /\ wire[1] = EvClose(NONE)
    /\ wire[2] = EvOpen(NONE)
    /\ AckedStart(wire[3])
    /\ IsFrame(wire[4], CMD_ENQUIRY)

\* ------------------------------------------------------------------------
\* C30: enter_maintenance performs at most one entry strategy: the debug
\* probe reset when jlink_reset is set, the replug wait when only
\* do_wait_for_replug is set, neither when both flags are clear; when the
\* strategy fails the operation returns a failure and the serial port was
\* never opened.
\* ------------------------------------------------------------------------
Performed(step) == \E i \in 1..Len(steps) : steps[i] = step
StrategyFailed(r) ==
    r.msg \in {"JLink reset failed", "Timed out waiting for board replug."}

C30_EntryStrategyExclusive ==
    /\ ~(Performed(STEP_JLINK) /\ Performed(STEP_REPLUG))
    /\ Performed(STEP_JLINK) => inp.jlink_reset
    /\ Performed(STEP_REPLUG) => (inp.do_wait_for_replug /\ ~inp.jlink_reset)
    /\ (~inp.jlink_reset /\ ~inp.do_wait_for_replug) => steps = <<>>
    /\ (em_ret.kind # "none" \/ pc \in {"em_open1", "em_return"}) =>
          /\ inp.jlink_reset => Performed(STEP_JLINK)
          /\ (inp.do_wait_for_replug /\ ~inp.jlink_reset) => Performed(STEP_REPLUG)
    /\ (pc = "em_return" /\ StrategyFailed(pending)) =>
          /\ pending.kind = "returned"
          /\ ~pending.success
          /\ Len(steps) = 1
          /\ wire = <<>>
          /\ ser # "open"
    /\ StrategyFailed(em_ret) =>
          /\ em_ret.kind = "returned"
          /\ ~em_ret.success
          /\ Len(steps) = 1
          /\ wire = <<>>
          /\ ser # "open"
          /\ pc \in {"done", "fl_after_maint"}
    /\ (pc = "done" /\ StrategyFailed(em_ret)) =>
          /\ result.kind = "returned"
          /\ ~result.success

\* Both flags set and the debug-probe reset failed: the replug wait was not
\* begun and the port was not opened.
C30_Witness ==
    /\ inp.op = "enter_maintenance"
    /\ inp.jlink_reset
    /\ inp.do_wait_for_replug
    /\ pc = "done"
    /\ result = Fail("JLink reset failed", "")
    /\ steps = <<STEP_JLINK>>
    /\ wire = <<>>

\* ------------------------------------------------------------------------
\* C31: open_serial makes at most `retries` attempts; no attempt follows one
\* that succeeded, and the port of that attempt is returned open; it raises
\* only after `retries` attempts that all failed; an attempt whose port
\* opened but could not be drained leaves the port closed and is followed
\* like any failed attempt.
\* ------------------------------------------------------------------------
C31_OpenSerialRetries ==
    inp.op = "open_serial" =>
       LET n == Len(result) IN
       /\ n <= inp.size
       /\ \A i \in 1..(n - 1) : result[i] # "ok"
       /\ pc = "open_serial" =>
             /\ n = attempt
             /\ \A i \in 1..n : result[i] # "ok"
             /\ ser # "open"
       /\ pc = "returned" =>
             /\ n >= 1
             /\ result[n] = "ok"
             /\ ser = "open"
       /\ pc = "raised" =>
             /\ n = inp.size
             /\ n >= 1
             /\ \A i \in 1..n : result[i] # "ok"
             /\ ser # "open"
       /\ (n >= 1 /\ result[n] = "not_ready") => ser = "closed"
       /\ pc = "returned_none" => inp.size = 0

\* The port could not be opened, then opened but not drained, then opened.
C31_Witness ==
    /\ inp.op = "open_serial"
    /\ inp.size = OPEN_RETRIES
    /\ pc = "returned"
    /\ result = <<"fail", "not_ready", "ok">>

\* ------------------------------------------------------------------------
\* C32: wait_for_replug returns a port only when a poll found the port list
\* empty and the latest poll, after it, found it non-empty; the port it
\* returns is the first of that latest list and was not listed at every
\* poll. It returns None when no poll before the disappear timeout found the
\* list empty, or when every poll after the empty one, up to the total
\* timeout, found it empty.
\* ------------------------------------------------------------------------
C32_ReplugObservedEmptyThenPresent ==
    pc \in {"wr_disappear", "wr_reappear", "wr_port", "wr_none"} =>
       LET polls == comp.polls
           n == Len(polls)
           Empties == {i \in 1..n : polls[i] = {}}
       IN
       /\ pc = "wr_disappear" => (Empties = {} /\ comp.ret = "-")
       /\ pc = "wr_reappear" =>
             /\ Empties # {}
             /\ \A i \in 1..n : \A j \in i..n : i \in Empties => j \in Empties
             /\ comp.ret = "-"
       /\ pc = "wr_port" =>
             /\ comp.ret \in SePorts
             /\ n >= 2
             /\ \E i \in 1..(n - 1) : polls[i] = {}
             /\ polls[n] # {}
             /\ comp.ret = FirstPort(polls[n])
             /\ comp.ret \in polls[n]
             /\ ~(\A k \in 1..n : comp.ret \in polls[k])
             /\ attempt < inp.size
       /\ pc = "wr_none" =>
             /\ comp.ret = "None"
             /\ \/ Empties = {} /\ attempt >= inp.addr
                \/ /\ Empties # {}
                   /\ polls[n] = {}
                   /\ attempt >= inp.size

\* The port was listed, then the list was empty, then the port was listed
\* again and returned.
C32_Witness ==
    /\ pc = "wr_port"
    /\ Len(comp.polls) = 3
    /\ comp.polls[1] = {"/dev/cu.usbserial2"}
    /\ comp.polls[2] = {}
    /\ comp.polls[3] = {"/dev/cu.usbserial2"}
    /\ comp.ret = "/dev/cu.usbserial2"

\* ------------------------------------------------------------------------
\* C33 as claimed: what send_cmd decodes as the response never is bytes that
\* were in the input buffer before the command's frame was written.
\* ------------------------------------------------------------------------
C33_NothingBufferedBeforeWriteDecoded ==
    (inp.op = "send_cmd_buffered" /\ pc = "returned") =>
       comp.decoded \in {"none", "after_write"}

\* ------------------------------------------------------------------------
\* C33 as amended: send_cmd empties the input buffer, writes the frame and
\* decodes once, in this order; bytes that were in the input buffer when the
\* buffer was emptied are never decoded as the response. Bytes that arrive
\* between the emptying and the write are.
\* ------------------------------------------------------------------------
C33_FlushedInputNotDecoded ==
    inp.op = "send_cmd_buffered" =>
       /\ pc = "sb_write" => comp.effects = <<"flush">>
       /\ pc = "sb_decode" => comp.effects = <<"flush", "write">>
       /\ pc = "returned" =>
             /\ comp.effects = <<"flush", "write", "decode">>
             /\ comp.decoded \notin {"before_call", "before_flush"}
       /\ pc \in {"sb_write", "sb_decode", "returned"} =>
             \A i \in 1..Len(comp.in_waiting) :
                comp.in_waiting[i] \notin {"before_call", "before_flush"}

\* Bytes were waiting when send_cmd was called, and the response decoded is
\* what arrived after the frame was written.
C33_Witness ==
    /\ inp.op = "send_cmd_buffered"
    /\ pc = "returned"
    /\ comp.at_call = <<"before_call">>
    /\ comp.decoded = "after_write"

\* ------------------------------------------------------------------------
\* C34: when flash_images was asked to enter maintenance mode and
\* enter_maintenance returned a failure, flash_images returns success=False
\* ("Failed to enter maintenance mode") next to that maintenance result;
\* write_image is not called and no BURN_MRAM, DOWNLOAD_DATA or
\* DOWNLOAD_DONE frame is on the wire.
\* ------------------------------------------------------------------------
MaintenanceFailed ==
    /\ inp.op = "flash_images"
    /\ inp.enter_maint
    /\ em_ret.kind = "returned"
    /\ ~em_ret.success

C34_NoWriteAfterMaintenanceFailure ==
    /\ MaintenanceFailed =>
          /\ pc \in {"fl_after_maint", "done"}
          /\ calls = <<>>
          /\ fl.idx = 0
          /\ wi = NoWi
          /\ \A i \in 1..Len(wire) :
                /\ ~IsFrame(wire[i], CMD_BURN_MRAM)
                /\ ~IsFrame(wire[i], CMD_DOWNLOAD_DATA)
                /\ ~IsFrame(wire[i], CMD_DOWNLOAD_DONE)
          /\ pc = "done" => result = Fail("Failed to enter maintenance mode", "")
    /\ (inp.op = "flash_images" /\ calls # <<>>) =>
          (inp.enter_maint => (em_ret.kind = "returned" /\ em_ret.success))

\* The device did not answer START_ISP, enter_maintenance returned its
\* failure and flash_images, which had images to write, returned.
C34_Witness ==
    /\ MaintenanceFailed
    /\ pc = "done"
    /\ em_ret.msg = "SE did not respond"
    /\ Images(inp.table) # <<>>
    /\ ~MissingBinary(inp.table)
    /\ result.msg = "Failed to enter maintenance mode"

\* ------------------------------------------------------------------------
\* C35: a successful write_image reports segments = ceil(padded / 262144)
\* and chunks = the sum over its segments of ceil(segment size / 240),
\* however many segments were retried after a USB drop; padded_bytes is the
\* padded length, a multiple of 16 less than 16 above the file's length,
\* and original_bytes is the file's length.
\* ------------------------------------------------------------------------
RECURSIVE ChunksFrom(_, _)
\* The chunks of the segments from offset `from` to the end of `padded`.
ChunksFrom(from, padded) ==
    IF from >= padded THEN 0
    ELSE LET seg == Min(MAX_SEGMENT_SIZE, padded - from)
         IN (seg + DATA_PER_CHUNK - 1) \div DATA_PER_CHUNK
            + ChunksFrom(from + MAX_SEGMENT_SIZE, padded)

Totals(r, file_size) ==
    /\ r.original_bytes = file_size
    /\ r.padded_bytes >= file_size
    /\ r.padded_bytes < file_size + 16
    /\ r.padded_bytes % 16 = 0
    /\ r.segments * MAX_SEGMENT_SIZE >= r.padded_bytes
    /\ (r.segments - 1) * MAX_SEGMENT_SIZE < r.padded_bytes
    /\ r.chunks = ChunksFrom(0, r.padded_bytes)

C35_TransferTotals ==
    /\ (pc = "wi_finally" /\ pending.kind = "returned" /\ pending.success) =>
          Totals(pending, wi.orig)
    /\ (inp.op = "write_image" /\ pc = "done"
          /\ result.kind = "returned" /\ result.success) =>
          Totals(result, inp.file.size)
    /\ (pc = "fl_after_write" /\ wi_ret.kind = "returned" /\ wi_ret.success) =>
          Totals(wi_ret, fl.images[fl.idx].size)

\* Segment 1 of a two-segment image was dropped and written again after the
\* reconnect; the totals are those of the image: 1093 chunks for the first
\* segment and 2 for the second.
C35_Witness ==
    /\ inp.op = "write_image"
    /\ inp.file.size = BigSize
    /\ pc = "wi_finally"
    /\ pending.kind = "returned"
    /\ pending.success
    /\ Len(wire) = 6
    /\ wire[1] = EvOpen(1)
    /\ AckedStart(wire[2])
    /\ pending.segments = 2
    /\ pending.chunks = 1095

\* ------------------------------------------------------------------------
\* C36: read_response does not look at the checksum: a frame that arrived
\* whole decodes to its second byte as command and the bytes between that
\* and the last as payload, whatever its bytes sum to; send_cmd returns
\* ok=True, and _write_segment goes on to the next chunk, when that second
\* byte is ACK or DATA_RESP.
\* ------------------------------------------------------------------------
\* f has as many bytes as its length byte says, three at least.
Whole(f) == Len(f) >= 3 /\ f[1] = Len(f)
Decoded(f) == [cmd |-> f[2], data |-> SubSeq(f, 3, Len(f) - 1)]

C36_ChecksumNotValidated ==
    /\ (inp.op = "read_response" /\ Whole(inp.data)) =>
          /\ read_response([err |-> FALSE, bytes |-> inp.data]) = Decoded(inp.data)
          /\ pc = "decoded" => result \in {Decoded(inp.data), NoResponse}
    /\ (inp.op = "send_cmd" /\ pc = "returned" /\ Whole(wire[2].bytes)) =>
          /\ result.ok = (wire[2].bytes[2] \in {CMD_ACK, CMD_DATA_RESP})
          /\ result.data = Decoded(wire[2].bytes).data
    /\ (inp.op = "chunk_response" /\ pc = "judged" /\ Whole(inp.data)) =>
          /\ result.accepted = (inp.data[2] \in {CMD_ACK, CMD_DATA_RESP})
          /\ ~result.usb_drop

\* An ACK frame whose checksum byte is wrong was decoded as ACK by
\* read_response.
C36_Witness ==
    /\ inp.op = "read_response"
    /\ pc = "decoded"
    /\ inp.data = Corrupt(make_packet(CMD_ACK, <<>>))
    /\ SumBytes(inp.data) % 256 # 0
    /\ result = [cmd |-> CMD_ACK, data |-> <<>>]

\* ------------------------------------------------------------------------
\* C37: whenever a tool call can start, every session in the registry is
\* open; and a close_port that found its session in the registry ends by
\* removing that id, never with an error, also when other calls for the
\* same session overlap with it.
\* ------------------------------------------------------------------------
C37_RegistryHoldsOpenSessions ==
    /\ \A id \in comp.sessions : comp.is_open[id]
    /\ \A t \in Tasks :
          ( /\ comp.task[t].tool = "close_port"
            /\ comp.task[t].pc \in {"done", "error"}
            /\ comp.task[t].outcome # "ValueError" ) =>
             /\ comp.task[t].outcome = "closed"
             /\ comp.task[t].id \notin comp.sessions

\* ------------------------------------------------------------------------
\* C38: send_command returns. The overall deadline is max(20 * timeout, 10)
\* from the start of the call and never moves; the idle deadline is the
\* time of the latest bytes plus the timeout; no pass of the loop begins at
\* or after the overall deadline, also when every read returns bytes; with
\* a pattern the loop is left at the first read whose accumulated output
\* matches.
\* ------------------------------------------------------------------------
SendCommandRunning == inp.op = "send_command" /\ pc \in {"sn_loop", "sn_strip", "returned"}

SendCommandBounded ==
    SendCommandRunning =>
       /\ comp.max_deadline >= OVERALL_FLOOR
       /\ comp.max_deadline >= OVERALL_FACTOR * inp.size
       /\ comp.max_deadline \in {OVERALL_FLOOR, OVERALL_FACTOR * inp.size}
       /\ comp.deadline <= comp.now + inp.size
       /\ comp.now < comp.max_deadline + MaxPass
       /\ (comp.pattern /\ comp.output = "match") =>
             (pc \in {"sn_strip", "returned"} /\ comp.stopped = "match")
       /\ comp.stopped = "match" => (comp.pattern /\ comp.output = "match")
       /\ comp.stopped = "deadline" =>
             (comp.now >= comp.deadline \/ comp.now >= comp.max_deadline)
       /\ pc = "sn_loop" => comp.stopped = "-"

OspiRunning == inp.op = "ospi" /\ pc \in {"op_idle", "op_read"}
OspiSettled == OspiRunning /\ pc = "op_idle" /\ Len(comp.sent) > 0

C39_OspiSequencing ==
    /\ OspiRunning =>
          /\ \A i \in 1..Len(comp.sent) :
                /\ comp.sent[i] \in 0..65535
                /\ comp.sent[i] =
                     ((IF i = 1 THEN inp.addr ELSE comp.sent[i - 1]) + 1) % 65536
                /\ (i > 1 /\ comp.sent[i - 1] = 65535) => comp.sent[i] = 0
          /\ (inp.addr = 0 /\ Len(comp.sent) > 0) => comp.sent[1] = 1
    /\ OspiSettled =>
          /\ ~comp.ret.raised =>
                /\ comp.resp.arrived
                /\ comp.resp.resp_id = comp.cmd_id + 128
                /\ comp.resp.seq = comp.sent[Len(comp.sent)]
                /\ comp.resp.status = 0
          /\ ( \/ ~comp.resp.arrived
               \/ comp.resp.resp_id # comp.cmd_id + 128
               \/ comp.resp.seq # comp.sent[Len(comp.sent)]
               \/ comp.resp.status # 0 ) => comp.ret.raised

\* A programmer late in its life sent 0xFFFF and then 0, and the response
\* that carried 0 was accepted.
C39_Witness ==
    /\ OspiSettled
    /\ Len(comp.sent) >= 2
    /\ comp.sent[Len(comp.sent) - 1] = 65535
    /\ comp.sent[Len(comp.sent)] = 0
    /\ ~comp.ret.raised
    /\ comp.resp.seq = 0
    /\ comp.resp.resp_id = comp.cmd_id + 128

====
